---- MODULE Spec2Model ----
(***************************************************************************)
(* aetherscale: the resource orchestrator (ComputingHandler), the process  *)
(* supervisor it drives (ServiceManager) and the files it keeps, as a      *)
(* state machine.  One command is handled at a time; create_vm is a        *)
(* generator, so its first event (allocating) is delivered before the rest *)
(* of its body runs.                                                       *)
(***************************************************************************)
EXTENDS Naturals, Integers, Sequences, FiniteSets, TLC

\* ------------------------------------------------------------------ bounds
\* Number of distinct ids random.choice can draw in the model (26^8 in the code).
NumIds == 2
\* Number of ports of the pool (config.VPN_PORTS holds 1000).
NumPorts == 2
\* Number of injected tool/supervisor failures during one command.
MaxFailures == 1
\* The count of handler instances saturates here.
MaxHandlers == 2

IdPool == <<"aaaaaaaa", "bbbbbbbb", "cccccccc", "dddddddd">>
VmIds == {IdPool[i] : i \in 1..NumIds}

\* ------------------------------------------------------------ configuration
FirstVpnPort == 50000
VPN_PORTS == FirstVpnPort..(FirstVpnPort + NumPorts - 1)
VPN_48_PREFIX == "fde7:2361:234a"
MaxPrefixes == 65536
MaxNetnameLen == 8
\* Files present in BASE_IMAGE_FOLDER (without the .qcow2 suffix).
BaseImages == {"base"}

\* ------------------------------------------------------------------- names
systemd_unit_name_for_vm(vm_id) == <<"aetherscale-vm-", vm_id, ".service">>

RADVD_SERVICE_NAME == <<"aetherscale-radvd.service">>

_service_name(netname) == <<"aetherscale-tincd-", netname, ".service">>

\* The sentinel for "raise ValueError" of vm_id_from_systemd_unit.
NotAVmUnit == "<ValueError>"

vm_id_from_systemd_unit(systemd_unit) ==
    IF Len(systemd_unit) >= 2 /\ systemd_unit[1] = "aetherscale-vm-"
    THEN systemd_unit[2]
    ELSE NotAVmUnit

bridge_interface_name(netname) == <<"tincbr-", netname>>

setup_script_path(vm_id, tap_name) == <<"vm", vm_id, tap_name, "-setup.sh">>

teardown_script_path(vm_id, tap_name) == <<"vm", vm_id, tap_name, "-teardown.sh">>

\* os.path.basename of a path given as its components.
basename(path) == path[Len(path)]

LowerAlnum ==
    {"a", "b", "c", "d", "e", "f", "g", "h", "i", "j", "k", "l", "m",
     "n", "o", "p", "q", "r", "s", "t", "u", "v", "w", "x", "y", "z",
     "0", "1", "2", "3", "4", "5", "6", "7", "8", "9"}

\* Overlay names are sequences of characters.  re.match('^[a-z0-9]+$',
\* netname): the class one or more times, then the end of the string or a
\* newline that ends the string; then the length is checked.
_validate_netname(netname) ==
    LET n == Len(netname)
        body == IF n > 0 /\ netname[n] = "\n" THEN SubSeq(netname, 1, n - 1)
                ELSE netname
    IN /\ Len(body) > 0
       /\ \A i \in 1..Len(body) : body[i] \in LowerAlnum
       /\ Len(netname) <= MaxNetnameLen

\* ------------------------------------------------------------------ inputs
NoOption == "<absent>"

\* options['image']: absent, or a path given as its components.
ImageOptions == {NoOption, <<"base">>, <<"..", "base">>, <<"missing">>}

\* options['vpn']: absent, a valid overlay name, an invalid one.
VpnOptions == {NoOption, <<"n", "1">>, <<"N", "1">>}

CreateOptions ==
    [image : ImageOptions, init_script : BOOLEAN,
     vpn : VpnOptions, public_ip : BOOLEAN]

\* options['vm-id'] of start_vm, stop_vm and delete_vm.
VmIdOptions == VmIds \cup {NoOption}

\* The delegated steps and supervisor calls that can fail during each command:
\* qemu-img and guestmount returning non-zero, systemctl start/stop returning
\* non-zero, the unit file copy failing, the image file not being removable.
\* (enable, disable, restart and uninstall are taken to succeed.)
CreateFailPoints == {"qemu-img", "guestmount", "tinc-start", "install", "start"}
StartFailPoints == {"start"}
StopFailPoints == {"stop"}
DeleteFailPoints == {"stop", "unlink"}

Failures(points) == {f \in SUBSET points : Cardinality(f) <= MaxFailures}

\* How the monitor socket answers a graceful power-down.
MonitorOutcomes == {"ok", "oserror"}

\* How the guest agent of a running VM answers list_vms: a reply with
\* addresses, a reply without the expected keys (KeyError), no reply within
\* the timeout, a socket that cannot be connected, a reply that is not JSON.
GuestOutcomes == {"ips", "noips", "timeout", "oserror", "badreply"}

\* ------------------------------------------------------------------- state
VARIABLES
    services,             \* unit files installed in the supervisor
    started_services,     \* units whose process runs
    enabled_services,     \* units enabled for autostart
    user_images,          \* vm ids whose disk image file exists
    resource_files,       \* network scripts in the VMs' resource directories
    established_vpns,     \* ComputingHandler.established_vpns: name -> port
    available_vpn_ports,  \* ComputingHandler.available_vpn_ports
    assigned_prefixes,    \* Radvd.assigned_prefixes
    radvd_conf,           \* the blocks of Radvd.config_file, in file order
    radvd_mode,           \* the permission bits of Radvd.config_file
    vpn_config,           \* the overlay directories under VPN_CONFIG_FOLDER:
                          \* name -> the Port of its tinc.conf
    pc,                   \* "idle", "create" between create_vm's two events,
                          \* "crashed" once the dispatch callback has raised
    cmd,                  \* the command being handled / handled last
    events,               \* the events the command has yielded, in order
    error,                \* the exception the command raised, or NoError
    calls,                \* the supervisor and monitor calls the command made
    sent,                 \* the envelopes given to the responder for the
                          \* message being handled / handled last, in order
    acked,                \* for each basic_ack of that message, the number
                          \* of envelopes sent before it
    frontend,             \* "queue" (api.broker.run) or "http" (api.rest.app)
    handlers,             \* ComputingHandler instances constructed so far
    creation_commands,    \* Iproute2Network.creation_commands
    deletion_commands,    \* Iproute2Network.deletion_commands
    raised,               \* the exception of the last builder request, or NoError
    host,                 \* the host's network devices, addresses and route
    host0,                \* the host's network state when setup() was called
    phase,                \* "build", "up" after setup(), "down" after
                          \* teardown(); "unused" while no builder is at work
    chain_ok,             \* what run_command_chain returned last
    requests,             \* requests made on builders so far
    issued,               \* the prefixes generate_prefix has returned, in order
    radvd_error,          \* the exception of the last call on the Radvd, or NoError
    radvd_calls,          \* calls made on the Radvd by its user so far
    monitor_pc,           \* where the user of a QemuMonitor stands: "unused",
                          \* "start", "init" (in __init__), "ready", "call"
                          \* (in execute), "dead" (__init__ raised)
    protocol,             \* QemuMonitor.protocol
    timeout,              \* the timeout argument of QemuMonitor.__init__
    peer,                 \* what listens on the socket file
    peer_state,           \* the peer's thread: alive, greeting sent, messages
                          \* of the client it has handled
    to_peer,              \* what the client has sent on the socket, in order
    to_client,            \* the lines the peer has sent and the client has
                          \* not read yet
    todo,                 \* the socket operations left of the call in progress
    exchange,             \* the client's sends, reads and returns, in order
    monitor_error,        \* the exception of the last call on the monitor
    timed_out,            \* a read of self.f has timed out
    resp,                 \* the reply fetch_ip_addresses got from execute()
    fetch_result          \* what fetch_ip_addresses returned or raised

vars ==
    <<services, started_services, enabled_services, user_images, resource_files,
      established_vpns, available_vpn_ports, assigned_prefixes, vpn_config,
      radvd_conf, radvd_mode,
      pc, cmd, events, error, calls, sent, acked, frontend, handlers,
      creation_commands, deletion_commands, raised, host, host0, phase,
      chain_ok, requests, issued, radvd_error, radvd_calls,
      monitor_pc, protocol, timeout, peer, peer_state, to_peer, to_client,
      todo, exchange, monitor_error, timed_out, resp, fetch_result>>

\* The variables of the orchestrator and of the network topology builder.
orchestrator_vars ==
    <<services, started_services, enabled_services, user_images, resource_files,
      established_vpns, available_vpn_ports, assigned_prefixes, vpn_config,
      radvd_conf, radvd_mode,
      pc, cmd, events, error, calls, sent, acked, frontend, handlers>>

builder_vars ==
    <<creation_commands, deletion_commands, raised, host, host0, phase,
      chain_ok, requests>>

\* The orchestrator's variables other than those of its Radvd.
handler_vars ==
    <<services, started_services, enabled_services, user_images, resource_files,
      established_vpns, available_vpn_ports, vpn_config,
      pc, cmd, events, error, calls, sent, acked, frontend, handlers>>

\* What is recorded of a Radvd used on its own.
radvd_unit_vars == <<issued, radvd_error, radvd_calls>>

\* A QemuMonitor, its peer and the socket between them.
monitor_vars ==
    <<monitor_pc, protocol, timeout, peer, peer_state, to_peer, to_client,
      todo, exchange, monitor_error, timed_out>>

\* A GuestAgentIpAddress parsing one reply.
fetch_vars == <<resp, fetch_result>>

unit_vars == <<radvd_unit_vars, monitor_vars, fetch_vars>>

NoError == "<none>"

\* The registry of a ComputingHandler just constructed.
EmptyRegistry == [n \in {} |-> 0]

\* The handler-visible state as one record, threaded through a handler's body.
\* The queue listener keeps one handler; the HTTP front end constructs one per
\* request, with an empty registry and without a Radvd.
Here ==
    [services |-> services, started_services |-> started_services,
     enabled_services |-> enabled_services, user_images |-> user_images,
     resource_files |-> resource_files,
     established_vpns |-> IF frontend = "http" THEN EmptyRegistry
                          ELSE established_vpns,
     radvd |-> frontend = "queue",
     available_vpn_ports |-> available_vpn_ports,
     assigned_prefixes |-> assigned_prefixes, vpn_config |-> vpn_config,
     radvd_conf |-> radvd_conf, radvd_mode |-> radvd_mode,
     events |-> <<>>, error |-> NoError, calls |-> <<>>]

Raise(s, exception) == [s EXCEPT !.error = exception]

Failed(s) == s.error # NoError

Yield(s, event) == [s EXCEPT !.events = Append(@, event)]

Event(status, vm_id, hint) ==
    [status |-> status, vm_id |-> vm_id, hint |-> hint, vms |-> {}]

\* ------------------------------------------------- the process supervisor
\* Each operation returns the state after the call, the call and its return
\* value appended to the log.  Callers that ignore the return value go on.

install_service(s, service_name, fail) ==
    LET ret == "install" \notin fail
    IN [s EXCEPT !.services = IF ret THEN @ \cup {service_name} ELSE @,
                 !.calls = Append(@, <<"install", service_name, ret>>)]

\* Mutant: the unit file is left in place.
uninstall_service_keeps_unit(s, service_name) ==
    [s EXCEPT !.calls = Append(@, <<"uninstall", service_name, TRUE>>)]

uninstall_service(s, service_name) ==
    [s EXCEPT !.services = @ \ {service_name},
              !.calls = Append(@, <<"uninstall", service_name, TRUE>>)]

start_service(s, service_name, fail) ==
    LET ret == "start" \notin fail /\ service_name \in s.services
    IN [s EXCEPT !.started_services = IF ret THEN @ \cup {service_name} ELSE @,
                 !.calls = Append(@, <<"start", service_name, ret>>)]

stop_service(s, service_name, fail) ==
    LET ret == "stop" \notin fail
    IN [s EXCEPT !.started_services = IF ret THEN @ \ {service_name} ELSE @,
                 !.calls = Append(@, <<"stop", service_name, ret>>)]

restart_service(s, service_name) ==
    LET ret == service_name \in s.services
    IN [s EXCEPT !.started_services = IF ret THEN @ \cup {service_name} ELSE @,
                 !.calls = Append(@, <<"restart", service_name, ret>>)]

enable_service(s, service_name) ==
    LET ret == service_name \in s.services
    IN [s EXCEPT !.enabled_services = IF ret THEN @ \cup {service_name} ELSE @,
                 !.calls = Append(@, <<"enable", service_name, ret>>)]

disable_service(s, service_name) ==
    [s EXCEPT !.enabled_services = @ \ {service_name},
              !.calls = Append(@, <<"disable", service_name, TRUE>>)]

service_is_running(s, service_name) == service_name \in s.started_services

service_exists(s, service_name) == service_name \in s.services

list_services(s) == s.services

\* ------------------------------------------------------------ exceptions
E_ImageNotSpecified == "ValueError: Image not specified"
E_ImageMissing == "OSError: Image does not exist"
E_CreateImage == "QemuException: Could not create image for VM"
E_Mount == "QemuException: Could not mount image"
E_NoPort == "KeyError: pop from an empty set"
E_Netname == "ValueError: Invalid name for network provided"
E_Vpn == "VpnException: Could not establish VPN"
E_MaxNetworks == "RadvdException: Max number of available networks reached"
E_PrefixAssigned == "RadvdException: Prefix was already assigned"
E_VmIdNotSpecified == "ValueError: VM ID not specified"
E_VmDoesNotExist == "RuntimeError: VM does not exist"
E_MonitorSocket == "OSError: cannot connect to the monitor socket"
E_UnlinkImage == "FileNotFoundError: user image"
E_GuestSocket == "OSError: cannot connect to the guest agent socket"
E_GuestReply == "JSONDecodeError: guest agent reply"
E_NoRadvd == "AttributeError: 'NoneType' object has no attribute 'generate_prefix'"
E_TincArguments == "TypeError: __init__() takes 4 positional arguments but 5 were given"

\* The failures that report "no such VM / no such image".
NotFoundErrors == {E_VmDoesNotExist, E_ImageMissing}

\* ---------------------------------------------------- create_vm, its parts
\* Mutant: the base image is not checked before it is cloned.
create_user_image_unchecked(s, vm_id, image_name, fail) ==
    IF "qemu-img" \in fail THEN Raise(s, E_CreateImage)
    ELSE [s EXCEPT !.user_images = @ \cup {vm_id}]

create_user_image(s, vm_id, image_name, fail) ==
    IF image_name \notin BaseImages THEN Raise(s, E_ImageMissing)
    ELSE IF "qemu-img" \in fail THEN Raise(s, E_CreateImage)
    ELSE [s EXCEPT !.user_images = @ \cup {vm_id}]

\* image.guestmount + image.install_startup_script: the script lands inside
\* the disk image; only a failing mount is visible outside it.
guestmount(s, fail) ==
    IF "guestmount" \in fail THEN Raise(s, E_Mount) ELSE s

setup_tap_device(s, vm_id, tap_name) ==
    [s EXCEPT !.resource_files =
        @ \cup {setup_script_path(vm_id, tap_name),
                teardown_script_path(vm_id, tap_name)}]

\* str(n): the decimal digits of n.
DecimalDigits == <<"0", "1", "2", "3", "4", "5", "6", "7", "8", "9">>

RECURSIVE str(_)
str(n) ==
    IF n < 10 THEN <<DecimalDigits[n + 1]>>
    ELSE Append(str(n \div 10), DecimalDigits[(n % 10) + 1])

\* generate_prefix raises once 65536 prefixes are assigned.
generate_prefix_raises(s) == Cardinality(s.assigned_prefixes) >= MaxPrefixes

\* A /64 prefix "<first three groups>:<fourth group>::/64" as the pair of its
\* first three groups and the characters of its fourth group.
generate_prefix(s) == <<VPN_48_PREFIX, str(Cardinality(s.assigned_prefixes))>>

\* The permission bits of the configuration file.
OwnerWritable == "0o600"
ReadOnly == "0o400"
\* ... of a file open() has just created (the umask decides).
CreatedMode == "0o644"

\* CONFIG_BLOCK: the two placeholders of the template, in the order they
\* stand in it; the text around them is fixed.
CONFIG_BLOCK == <<"INTERFACE", "PREFIX">>

\* str.replace on the words of a text.
replace(text, old, new) ==
    [i \in DOMAIN text |-> IF text[i] = old THEN new ELSE text[i]]

\* The block add_interface writes: INTERFACE is replaced first, then PREFIX
\* in what the first replacement gave.
config_block(interface_name, prefix) ==
    LET named == replace(CONFIG_BLOCK, "INTERFACE", interface_name)
    IN [i \in DOMAIN named |-> IF named[i] = "PREFIX" THEN prefix ELSE named[i]]

\* Mutant: the file is opened with 'wt', so that the block replaces it.
add_interface_truncating(s, interface_name, prefix) ==
    IF prefix \in s.assigned_prefixes THEN Raise(s, E_PrefixAssigned)
    ELSE [s EXCEPT !.radvd_conf = <<config_block(interface_name, prefix)>>,
                   !.assigned_prefixes = @ \cup {prefix},
                   !.radvd_mode = ReadOnly]

\* Mutant: the file is made writable before the prefix is looked up.
add_interface_chmod_first(s, interface_name, prefix) ==
    IF prefix \in s.assigned_prefixes
    THEN Raise([s EXCEPT !.radvd_mode = OwnerWritable], E_PrefixAssigned)
    ELSE [s EXCEPT !.radvd_conf = Append(@, <<interface_name, prefix>>),
                   !.assigned_prefixes = @ \cup {prefix},
                   !.radvd_mode = ReadOnly]

add_interface(s, interface_name, prefix) ==
    IF prefix \in s.assigned_prefixes THEN Raise(s, E_PrefixAssigned)
    ELSE [s EXCEPT !.radvd_conf = Append(@, config_block(interface_name, prefix)),
                   !.assigned_prefixes = @ \cup {prefix},
                   !.radvd_mode = ReadOnly]

\* TincVirtualNetwork.create_config, gen_keypair and start_daemon.
start_daemon(s, netname, port, fail) ==
    LET s1 == [s EXCEPT !.vpn_config =
                  [n \in DOMAIN @ \cup {netname} |->
                      IF n = netname THEN port ELSE @[n]]]
        s2 == install_service(s1, _service_name(netname), {})
        s3 == enable_service(s2, _service_name(netname))
        s4 == start_service(s3, _service_name(netname),
                            IF "tinc-start" \in fail THEN {"start"} ELSE {})
        success == s4.calls[Len(s4.calls)][3]
    IN IF success THEN s4 ELSE Raise(s4, E_Vpn)

\* The arguments TincVirtualNetwork.__init__ takes after self (netname, port,
\* service_manager) and the arguments _establish_vpn passes to it (vpn_name,
\* config.VPN_CONFIG_FOLDER, vpn_port, self.service_manager).
TincInitParameters == 3
TincInitArguments == 4

\* Mutant: the pool is recomputed from the configured ports, leaving out only
\* the port taken now, so ports taken by earlier calls come back.
create_vpn_refills_pool(s, vpn_name, port, prefix, fail) ==
    IF s.available_vpn_ports = {} THEN Raise(s, E_NoPort)
    ELSE Raise([s EXCEPT !.available_vpn_ports = VPN_PORTS \ {port}],
               E_TincArguments)

\* Mutant: an empty pool is not noticed; the creation goes on with the
\* default port 0.
create_vpn_unchecked_pool(s, vpn_name, port, prefix, fail) ==
    Raise([s EXCEPT !.available_vpn_ports = @ \ {port}], E_TincArguments)

\* The branch of _establish_vpn that creates an overlay; port is the element
\* set.pop() takes from the pool.  The constructor call follows the pop.
create_vpn(s, vpn_name, port, prefix, fail) ==
    IF s.available_vpn_ports = {} THEN Raise(s, E_NoPort)
    ELSE
        LET s1 == [s EXCEPT !.available_vpn_ports = @ \ {port}]
        IN IF TincInitArguments # TincInitParameters
           THEN Raise(s1, E_TincArguments)
           ELSE IF ~_validate_netname(vpn_name) THEN Raise(s1, E_Netname)
           ELSE
             LET s2 == start_daemon(s1, vpn_name, port, fail)
                 s3 == [s2 EXCEPT !.established_vpns =
                           [n \in DOMAIN @ \cup {vpn_name} |->
                               IF n = vpn_name THEN port ELSE @[n]]]
                 s4 == add_interface(s3, bridge_interface_name(vpn_name), prefix)
             IN IF Failed(s2) THEN s2
                ELSE IF Failed(s4) THEN s4
                ELSE restart_service(s4, RADVD_SERVICE_NAME)

_establish_vpn(s, vpn_name, vm_id, port, fail) ==
    IF ~s.radvd THEN Raise(s, E_NoRadvd)
    ELSE IF generate_prefix_raises(s) THEN Raise(s, E_MaxNetworks)
    ELSE
        LET s1 == IF vpn_name \in DOMAIN s.established_vpns THEN s
                  ELSE create_vpn(s, vpn_name, port, generate_prefix(s), fail)
        IN IF Failed(s1) THEN s1
           ELSE setup_tap_device(s1, vm_id, <<"vpn-", vm_id>>)

_create_qemu_systemd_unit(s, unit_name, fail) ==
    install_service(s, unit_name, fail)

\* create_vm after its first yield.
create_vm_body(s, vm_id, options, port, fail) ==
    IF options.image = NoOption THEN Raise(s, E_ImageNotSpecified)
    ELSE
      LET s1 == create_user_image(s, vm_id, basename(options.image), fail)
          s2 == IF options.init_script THEN guestmount(s1, fail) ELSE s1
          s3 == IF options.vpn # NoOption
                THEN _establish_vpn(s2, options.vpn, vm_id, port, fail)
                ELSE s2
          s4 == IF options.public_ip
                THEN setup_tap_device(s3, vm_id, <<"pub-", vm_id>>)
                ELSE s3
          unit_name == systemd_unit_name_for_vm(vm_id)
          s5 == _create_qemu_systemd_unit(s4, unit_name, fail)
          s6 == start_service(s5, unit_name, fail)
      IN IF Failed(s1) THEN s1
         ELSE IF Failed(s2) THEN s2
         ELSE IF Failed(s3) THEN s3
         ELSE Yield(s6, Event("starting", vm_id, ""))

\* ------------------------------------------------ start, stop, delete, list
start_vm(s, vm_id, fail) ==
    IF vm_id = NoOption THEN Raise(s, E_VmIdNotSpecified)
    ELSE
      LET unit_name == systemd_unit_name_for_vm(vm_id)
      IN IF ~service_exists(s, unit_name) THEN Raise(s, E_VmDoesNotExist)
         ELSE IF service_is_running(s, unit_name)
         THEN Yield(s, Event("starting", vm_id, "was already started"))
         ELSE Yield(enable_service(start_service(s, unit_name, fail),
                                   unit_name),
                    Event("starting", vm_id, ""))

\* QemuMonitor(...).execute('system_powerdown') on the monitor socket.
system_powerdown(s, vm_id, monitor) ==
    LET s1 == [s EXCEPT !.calls = Append(@, <<"qmp", vm_id, monitor = "ok">>)]
    IN IF monitor = "ok" THEN s1 ELSE Raise(s1, E_MonitorSocket)

\* Mutant: an unknown unit is treated like a stopped one.
stop_vm_unknown_ok(s, vm_id, kill_flag, monitor, fail) ==
    IF vm_id = NoOption THEN Raise(s, E_VmIdNotSpecified)
    ELSE
      LET unit_name == systemd_unit_name_for_vm(vm_id)
          stop_status == IF kill_flag THEN "killed" ELSE "stopped"
          s1 == disable_service(s, unit_name)
          s2 == IF kill_flag THEN stop_service(s1, unit_name, fail)
                ELSE system_powerdown(s1, vm_id, monitor)
      IN IF ~service_is_running(s, unit_name)
         THEN Yield(s, Event(stop_status, vm_id, "was not running"))
         ELSE IF Failed(s2) THEN s2
         ELSE Yield(s2, Event(stop_status, vm_id, ""))

\* Mutant: a VM that is not running is disabled and stopped all the same.
stop_vm_always_stops(s, vm_id, kill_flag, monitor, fail) ==
    IF vm_id = NoOption THEN Raise(s, E_VmIdNotSpecified)
    ELSE
      LET unit_name == systemd_unit_name_for_vm(vm_id)
          stop_status == IF kill_flag THEN "killed" ELSE "stopped"
          s1 == disable_service(s, unit_name)
          s2 == IF kill_flag THEN stop_service(s1, unit_name, fail)
                ELSE system_powerdown(s1, vm_id, monitor)
      IN IF ~service_exists(s, unit_name) THEN Raise(s, E_VmDoesNotExist)
         ELSE IF Failed(s2) THEN s2
         ELSE Yield(s2, Event(stop_status, vm_id, ""))

\* Mutant: the descriptor is disabled once the stop has gone through.
stop_vm_disables_last(s, vm_id, kill_flag, monitor, fail) ==
    IF vm_id = NoOption THEN Raise(s, E_VmIdNotSpecified)
    ELSE
      LET unit_name == systemd_unit_name_for_vm(vm_id)
          stop_status == IF kill_flag THEN "killed" ELSE "stopped"
          s1 == IF kill_flag THEN stop_service(s, unit_name, fail)
                ELSE system_powerdown(s, vm_id, monitor)
          s2 == IF Failed(s1) THEN s1 ELSE disable_service(s1, unit_name)
      IN IF ~service_exists(s, unit_name) THEN Raise(s, E_VmDoesNotExist)
         ELSE IF ~service_is_running(s, unit_name)
         THEN Yield(s, Event(stop_status, vm_id, "was not running"))
         ELSE IF Failed(s2) THEN s2
         ELSE Yield(s2, Event(stop_status, vm_id, ""))

stop_vm(s, vm_id, kill_flag, monitor, fail) ==
    IF vm_id = NoOption THEN Raise(s, E_VmIdNotSpecified)
    ELSE
      LET unit_name == systemd_unit_name_for_vm(vm_id)
          stop_status == IF kill_flag THEN "killed" ELSE "stopped"
          s1 == disable_service(s, unit_name)
          s2 == IF kill_flag THEN stop_service(s1, unit_name, fail)
                ELSE system_powerdown(s1, vm_id, monitor)
      IN IF ~service_exists(s, unit_name) THEN Raise(s, E_VmDoesNotExist)
         ELSE IF ~service_is_running(s, unit_name)
         THEN Yield(s, Event(stop_status, vm_id, "was not running"))
         ELSE IF Failed(s2) THEN s2
         ELSE Yield(s2, Event(stop_status, vm_id, ""))

delete_vm(s, vm_id, fail) ==
    IF vm_id = NoOption THEN Raise(s, E_VmIdNotSpecified)
    ELSE
      LET s1 == stop_vm(s, vm_id, TRUE, "ok", fail)
          \* _exhaust: the events of stop_vm are consumed, not passed on
          s2 == [s1 EXCEPT !.events = <<>>]
          s3 == uninstall_service(s2, systemd_unit_name_for_vm(vm_id))
      IN IF Failed(s1) THEN s1
         ELSE IF vm_id \notin s3.user_images \/ "unlink" \in fail
         THEN Raise(s3, E_UnlinkImage)
         ELSE Yield([s3 EXCEPT !.user_images = @ \ {vm_id}],
                    Event("deleted", vm_id, ""))

\* Mutant: the VM processes found running are listed as well.
all_vms_with_orphans(s) ==
    ({vm_id_from_systemd_unit(u) : u \in list_services(s)}
        \cup {vm_id_from_systemd_unit(u) : u \in s.started_services})
    \ {NotAVmUnit}

\* The ids list_vms enumerates: the installed units that parse as VM units.
all_vms(s) ==
    {vm_id_from_systemd_unit(u) : u \in list_services(s)} \ {NotAVmUnit}

\* The processes named vm-<id> that psutil finds.
running_vms(s) ==
    {vm_id_from_systemd_unit(u) : u \in s.started_services} \ {NotAVmUnit}

orphaned_vms(s) == running_vms(s) \ all_vms(s)

\* One entry of the list; guest maps each running VM to its agent's answer.
vm_entry(vm_id, running, guest) ==
    IF ~running
    THEN [vm_id |-> vm_id, ip_addresses |-> "<absent>", hint |-> ""]
    ELSE [vm_id |-> vm_id,
          ip_addresses |-> IF guest[vm_id] = "ips" THEN "addresses" ELSE "[]",
          hint |-> IF guest[vm_id] = "timeout"
                   THEN "Could not retrieve IP address for guest" ELSE ""]

\* The position of an id in the order in which list_vms walks all_vms.
IdIndex(vm_id) == CHOOSE i \in 1..Len(IdPool) : IdPool[i] = vm_id

list_vms(s, guest) ==
    LET queried == all_vms(s) \cap running_vms(s)
        vms == {vm_entry(v, v \in running_vms(s), guest) : v \in all_vms(s)}
        \* only QemuException is caught: the other exceptions leave list_vms
        raising == {v \in queried : guest[v] \in {"oserror", "badreply"}}
        first == CHOOSE v \in raising :
                     \A w \in raising : IdIndex(v) <= IdIndex(w)
    IN IF raising # {}
       THEN Raise(s, IF guest[first] = "oserror" THEN E_GuestSocket
                     ELSE E_GuestReply)
       ELSE Yield(s, [status |-> "list", vm_id |-> "", hint |-> "", vms |-> vms])

\* ----------------------------------------------------------------- actions
\* The command handled last: its name, its vm-id (for create_vm the id it
\* drew), its kill flag and, for create_vm, its image option.
Command(command, vm_id, kill, image) ==
    [command |-> command, vm_id |-> vm_id, kill |-> kill, image |-> image]

\* The envelopes of the dispatch callback.
NoResponse == "<no response>"

SuccessEnvelope(response) ==
    [status |-> "success", response |-> response, reason |-> ""]

ErrorEnvelope(reason) ==
    [status |-> "error", response |-> NoResponse, reason |-> reason]

\* Mutant: the error envelope is not sent.
Replies_without_error(r, delivered) ==
    [i \in 1..(Len(r.events) - delivered) |->
        SuccessEnvelope(r.events[delivered + i])]

\* The loop of the callback over the handler's generator, resumed after
\* `delivered` events: one success envelope per event yielded, then one error
\* envelope if the handler raised.
Replies(r, delivered) ==
    [i \in 1..(Len(r.events) - delivered) |->
        SuccessEnvelope(r.events[delivered + i])]
    \o (IF Failed(r) THEN <<ErrorEnvelope(r.error)>> ELSE <<>>)

\* The keys of command_fn.
HandlerCommands == {"list-vms", "create-vm", "start-vm", "stop-vm", "delete-vm"}

\* Mutant: the message is acknowledged before its handler runs.
basic_ack_first(published) == <<0>>

\* ch.basic_ack(delivery_tag=method.delivery_tag), the last statement of the
\* callback: `published` envelopes were given to the responder before it.
basic_ack(published) == <<published>>

\* The handler has run to its end (or raised): its effects become the state.
Finish(r, c) ==
    /\ sent' = IF frontend = "http" THEN <<>>
               ELSE IF pc = "create" THEN sent \o Replies(r, Len(sent))
               ELSE Replies(r, 0)
    /\ acked' = IF frontend = "queue" /\ c.command \in HandlerCommands
                THEN basic_ack(Len(r.events) + (IF Failed(r) THEN 1 ELSE 0))
                ELSE <<>>
    /\ frontend' = frontend
    /\ UNCHANGED <<builder_vars, unit_vars>>
    /\ services' = r.services
    /\ started_services' = r.started_services
    /\ enabled_services' = r.enabled_services
    /\ user_images' = r.user_images
    /\ resource_files' = r.resource_files
    /\ established_vpns' = IF frontend = "http" THEN established_vpns
                           ELSE r.established_vpns
    /\ available_vpn_ports' = r.available_vpn_ports
    /\ assigned_prefixes' = r.assigned_prefixes
    /\ radvd_conf' = r.radvd_conf
    /\ radvd_mode' = r.radvd_mode
    /\ vpn_config' = r.vpn_config
    /\ events' = r.events
    /\ error' = r.error
    /\ calls' = r.calls
    /\ cmd' = c
    /\ pc' = "idle"

\* run(): the router-advertisement daemon is installed and started, the
\* handler starts with an empty registry and the whole pool.
HandlerStart ==
    /\ services = {RADVD_SERVICE_NAME}
    /\ started_services = {RADVD_SERVICE_NAME}
    /\ enabled_services = {}
    /\ user_images = {}
    /\ resource_files = {}
    /\ established_vpns = EmptyRegistry
    /\ available_vpn_ports = VPN_PORTS
    /\ pc = "idle"
    /\ cmd = Command("none", "", FALSE, NoOption)
    /\ events = <<>>
    /\ error = NoError
    /\ calls = <<>>
    /\ sent = <<>>
    /\ acked = <<>>
    /\ frontend \in {"queue", "http"}
    /\ handlers = IF frontend = "queue" THEN 1 ELSE 0

\* The first start: no overlay directory exists.
HandlerInit == HandlerStart /\ vpn_config = EmptyRegistry

\* Radvd.__init__: no prefix assigned, the configuration file empty.
RadvdConstructed ==
    /\ assigned_prefixes = {}
    /\ radvd_conf = <<>>
    /\ radvd_mode = CreatedMode

OrchestratorInit == HandlerInit /\ RadvdConstructed

\* No network topology builder is at work.
NoHost == [devices |-> {}, up |-> {}, master |-> {}, addrs |-> {},
           route |-> <<>>]

BuilderUnused ==
    /\ creation_commands = <<>>
    /\ deletion_commands = <<>>
    /\ raised = NoError
    /\ host = NoHost
    /\ host0 = NoHost
    /\ phase = "unused"
    /\ chain_ok = TRUE
    /\ requests = 0

\* No Radvd is used on its own.
RadvdUnused ==
    /\ issued = <<>>
    /\ radvd_error = NoError
    /\ radvd_calls = 0

\* The thread of a peer that has accepted nothing yet.
PeerWaiting == [alive |-> TRUE, greeted |-> FALSE, seen |-> 0]

\* No QemuMonitor is followed step by step.
MonitorUnused ==
    /\ monitor_pc = "unused"
    /\ protocol = "QMP"
    /\ timeout = "None"
    /\ peer = "none"
    /\ peer_state = PeerWaiting
    /\ to_peer = <<>>
    /\ to_client = <<>>
    /\ todo = <<>>
    /\ exchange = <<>>
    /\ monitor_error = NoError
    /\ timed_out = FALSE

\* A reply: what the JSON value is (top), what stands under its key 'return'
\* (ret) and, when that is a list, its elements.
Reply(top, ret, interfaces) ==
    [top |-> top, ret |-> ret, interfaces |-> interfaces]

\* What fetch_ip_addresses left: the list it returned or the exception.
FetchResult(done, ips, exception) ==
    [done |-> done, ips |-> ips, error |-> exception]

\* No reply is parsed on its own.
FetchUnused ==
    /\ resp = Reply("none", "absent", <<>>)
    /\ fetch_result = FetchResult(FALSE, <<>>, NoError)

UnitsUnused == RadvdUnused /\ MonitorUnused /\ FetchUnused

Init == OrchestratorInit /\ BuilderUnused /\ UnitsUnused

\* A command arrives: the queue listener hands it to its one handler, the
\* HTTP front end constructs a handler for the request (before_request).
NewRequest ==
    handlers' = IF frontend = "http" /\ handlers < MaxHandlers
                THEN handlers + 1 ELSE handlers

\* The HTTP routes always pass a vm-id and never pass kill.
RequestVmIds == IF frontend = "http" THEN VmIds ELSE VmIdOptions

RequestKill == IF frontend = "http" THEN {FALSE} ELSE BOOLEAN

ListVms ==
    /\ pc = "idle"
    /\ NewRequest
    /\ \E guest \in [all_vms(Here) \cap running_vms(Here) -> GuestOutcomes] :
         Finish(list_vms(Here, guest), Command("list-vms", "", FALSE, NoOption))

\* create_vm up to its first yield: the id is drawn, allocating is delivered.
\* (The options are first read after this yield; CreateVmRun binds them.)
CreateVmAllocate ==
    /\ pc = "idle"
    /\ \E vm_id \in VmIds :
         /\ cmd' = Command("create-vm", vm_id, FALSE, NoOption)
         /\ events' = <<Event("allocating", vm_id, "")>>
         /\ sent' = IF frontend = "http" THEN <<>>
                    ELSE <<SuccessEnvelope(Event("allocating", vm_id, ""))>>
         /\ acked' = <<>>
    /\ NewRequest
    /\ frontend' = frontend
    /\ pc' = "create"
    /\ error' = NoError
    /\ calls' = <<>>
    /\ UNCHANGED <<services, started_services, enabled_services, user_images,
                   resource_files, established_vpns, available_vpn_ports,
                   assigned_prefixes, vpn_config, radvd_conf, radvd_mode>>
    /\ UNCHANGED <<builder_vars, unit_vars>>

\* create_vm from its first yield to its end.
CreateVmRun ==
    /\ pc = "create"
    /\ UNCHANGED handlers
    /\ \E options \in CreateOptions, fail \in Failures(CreateFailPoints),
          port \in IF available_vpn_ports = {} THEN {0} ELSE available_vpn_ports :
         Finish(create_vm_body([Here EXCEPT !.events = events],
                               cmd.vm_id, options, port, fail),
                Command("create-vm", cmd.vm_id, FALSE, options.image))

StartVm ==
    /\ pc = "idle"
    /\ NewRequest
    /\ \E vm_id \in RequestVmIds, fail \in Failures(StartFailPoints) :
         Finish(start_vm(Here, vm_id, fail),
                Command("start-vm", vm_id, FALSE, NoOption))

StopVm ==
    /\ pc = "idle"
    /\ NewRequest
    /\ \E vm_id \in RequestVmIds, kill \in RequestKill,
          monitor \in MonitorOutcomes, fail \in Failures(StopFailPoints) :
         Finish(stop_vm(Here, vm_id, kill, monitor, fail),
                Command("stop-vm", vm_id, kill, NoOption))

DeleteVm ==
    /\ pc = "idle"
    /\ NewRequest
    /\ \E vm_id \in RequestVmIds, fail \in Failures(DeleteFailPoints) :
         Finish(delete_vm(Here, vm_id, fail),
                Command("delete-vm", vm_id, FALSE, NoOption))

\* The hypervisor process of a started VM ends on its own (the guest powers
\* down, also after system_powerdown was sent): the unit is no longer active.
QemuExits ==
    /\ pc = "idle"
    /\ UNCHANGED handlers
    /\ \E vm_id \in running_vms(Here) :
         Finish([Here EXCEPT !.started_services =
                    @ \ {systemd_unit_name_for_vm(vm_id)}],
                Command("qemu-exit", vm_id, FALSE, NoOption))

\* A message the callback cannot dispatch: a body that is not JSON, a JSON
\* value that is not an object, an object without "command", an object whose
\* command is not in command_fn.
BadMessages == {"not-json", "not-object", "no-command", "unknown-command"}

\* json.loads and data['command'] stand outside the try block: their
\* exceptions (other than KeyError) leave the callback and end
\* start_consuming.  A missing or unknown command is logged and dropped.
BadMessage ==
    /\ pc = "idle" /\ frontend = "queue"
    /\ UNCHANGED <<frontend, handlers>>
    /\ \E kind \in BadMessages :
         /\ cmd' = Command(kind, "", FALSE, NoOption)
         /\ pc' = IF kind \in {"not-json", "not-object"} THEN "crashed" ELSE "idle"
    /\ events' = <<>>
    /\ error' = NoError
    /\ calls' = <<>>
    /\ sent' = <<>>
    /\ acked' = <<>>
    /\ UNCHANGED <<services, started_services, enabled_services, user_images,
                   resource_files, established_vpns, available_vpn_ports,
                   assigned_prefixes, vpn_config, radvd_conf, radvd_mode>>
    /\ UNCHANGED <<builder_vars, unit_vars>>

Next ==
    \/ BadMessage
    \/ ListVms
    \/ CreateVmAllocate
    \/ CreateVmRun
    \/ StartVm
    \/ StopVm
    \/ DeleteVm
    \/ QemuExits

Spec == Init /\ [][Next]_vars

\* ============================================ the network topology builder
\* Total number of requests made on builders in one run.
MaxRequests == 3

MaxDeviceNameLen == 15

\* The characters device names are spelled with in the model.
Alphabet == {"a", "z", "0", "9", "-", "A", " ", "\n", "é"}

DeviceNameChars ==
    {"a", "b", "c", "d", "e", "f", "g", "h", "i", "j", "k", "l", "m",
     "n", "o", "p", "q", "r", "s", "t", "u", "v", "w", "x", "y", "z",
     "0", "1", "2", "3", "4", "5", "6", "7", "8", "9", "-"}

E_ZeroLengthName == "NetworkingException: Zero-length device name not allowed"
E_NameTooLong == "NetworkingException: Device name must be max. 15 characters"
E_InvalidDeviceName == "NetworkingException: Invalid name for network device provided"
E_InvalidIp == "NetworkingException: Invalid IP address provided"

\* re.match('^[a-z0-9-]+$', name): the class one or more times, then the end
\* of the string or a newline that ends the string.
DeviceNameRegexMatches(chars) ==
    LET n == Len(chars)
        body == IF n > 0 /\ chars[n] = "\n" THEN SubSeq(chars, 1, n - 1)
                ELSE chars
    IN /\ Len(body) > 0
       /\ \A i \in 1..Len(body) : body[i] \in DeviceNameChars

\* The exception validate_device_name raises for a name given as its
\* characters, or NoError.
validate_device_name(chars) ==
    IF Len(chars) = 0 THEN E_ZeroLengthName
    ELSE IF Len(chars) > MaxDeviceNameLen THEN E_NameTooLong
    ELSE IF ~DeviceNameRegexMatches(chars) THEN E_InvalidDeviceName
    ELSE NoError

\* The names and addresses requests are made with, and how names are spelled.
None == "<None>"
BridgeNames == {"br0", "Br0"}
PhysNames == {"eth0"}
TapNames == {"tap0", "tap0\n"}
Users == {"my user"}
IpOptions == {None, "10.0.0.2/24", "not-an-ip!!"}
GatewayOptions == {None, "10.0.0.1"}

Spelling(name) ==
    CASE name = "br0" -> <<"b", "r", "0">>
      [] name = "Br0" -> <<"B", "r", "0">>
      [] name = "eth0" -> <<"e", "t", "h", "0">>
      [] name = "tap0" -> <<"t", "a", "p", "0">>
      [] name = "tap0\n" -> <<"t", "a", "p", "0", "\n">>

\* validate_ip_address on the addresses of the model.
validate_ip_address(ip_addr) ==
    IF ip_addr \in {"10.0.0.2/24", "10.0.0.1", "10.0.0.9/24"} THEN NoError
    ELSE E_InvalidIp

\* ---------------------------------------------------------- the commands
LinkAddBridge(bridge) == <<"sudo", "ip", "link", "add", bridge, "type", "bridge">>
LinkSetUp(device) == <<"sudo", "ip", "link", "set", device, "up">>
LinkSetDevUp(device) == <<"sudo", "ip", "link", "set", "dev", device, "up">>
LinkSetMaster(device, bridge) ==
    <<"sudo", "ip", "link", "set", device, "master", bridge>>
LinkSetNomaster(device) == <<"sudo", "ip", "link", "set", device, "nomaster">>
LinkDel(device) == <<"sudo", "ip", "link", "del", device>>
AddrFlush(device) == <<"sudo", "ip", "addr", "flush", "dev", device>>
AddrAdd(ip, device) == <<"sudo", "ip", "addr", "add", ip, "dev", device>>
RouteAddDefault(gateway, device) ==
    <<"sudo", "ip", "route", "add", "default", "via", gateway, "dev", device>>
RouteDelDefault == <<"sudo", "ip", "route", "del", "default">>
TuntapAdd(device, user) ==
    <<"sudo", "ip", "tuntap", "add", "dev", device, "mode", "tap", "user", user>>

\* ------------------------------------------------- the host's `ip` command
\* What one command does to the host: [ok, host].  A command fails (returns
\* non-zero) and changes nothing when it names a missing device, adds what
\* exists already or deletes what does not exist.
NoRoute == <<>>

Done(h) == [ok |-> TRUE, host |-> h]
Refused(h) == [ok |-> FALSE, host |-> h]

RemoveDevice(h, d) ==
    [devices |-> h.devices \ {d},
     up |-> h.up \ {d},
     master |-> {m \in h.master : m[1] # d /\ m[2] # d},
     addrs |-> {a \in h.addrs : a[1] # d},
     route |-> IF h.route # NoRoute /\ h.route[2] = d THEN NoRoute ELSE h.route]

\* The kernel takes no device name that holds white space.
KernelName(name) ==
    \A i \in 1..Len(Spelling(name)) : Spelling(name)[i] \notin {" ", "\n"}

Exec(h, c) ==
    IF c[3] = "link" /\ c[4] = "add" THEN
        IF c[5] \in h.devices \/ ~KernelName(c[5]) THEN Refused(h)
        ELSE Done([h EXCEPT !.devices = @ \cup {c[5]}])
    ELSE IF c[3] = "tuntap" THEN
        IF c[6] \in h.devices \/ ~KernelName(c[6]) THEN Refused(h)
        ELSE Done([h EXCEPT !.devices = @ \cup {c[6]}])
    ELSE IF c[3] = "link" /\ c[4] = "del" THEN
        IF c[5] \notin h.devices THEN Refused(h)
        ELSE Done(RemoveDevice(h, c[5]))
    ELSE IF c[3] = "link" /\ c[4] = "set" /\ Len(c) = 6 /\ c[6] = "up" THEN
        IF c[5] \notin h.devices THEN Refused(h)
        ELSE Done([h EXCEPT !.up = @ \cup {c[5]}])
    ELSE IF c[3] = "link" /\ c[4] = "set" /\ Len(c) = 6 /\ c[6] = "nomaster" THEN
        IF c[5] \notin h.devices THEN Refused(h)
        ELSE Done([h EXCEPT !.master = {m \in @ : m[1] # c[5]}])
    ELSE IF c[3] = "link" /\ c[4] = "set" /\ Len(c) = 7 /\ c[6] = "master" THEN
        IF c[5] \notin h.devices \/ c[7] \notin h.devices THEN Refused(h)
        ELSE Done([h EXCEPT !.master =
                      {m \in @ : m[1] # c[5]} \cup {<<c[5], c[7]>>}])
    ELSE IF c[3] = "link" /\ c[4] = "set" /\ Len(c) = 7 /\ c[7] = "up" THEN
        IF c[6] \notin h.devices THEN Refused(h)
        ELSE Done([h EXCEPT !.up = @ \cup {c[6]}])
    ELSE IF c[3] = "addr" /\ c[4] = "flush" THEN
        \* a device without addresses loses its routes
        IF c[6] \notin h.devices THEN Refused(h)
        ELSE Done([h EXCEPT !.addrs = {a \in @ : a[1] # c[6]},
                            !.route = IF @ # NoRoute /\ @[2] = c[6]
                                      THEN NoRoute ELSE @])
    ELSE IF c[3] = "addr" /\ c[4] = "add" THEN
        IF c[7] \notin h.devices \/ <<c[7], c[5]>> \in h.addrs THEN Refused(h)
        ELSE Done([h EXCEPT !.addrs = @ \cup {<<c[7], c[5]>>}])
    ELSE IF c[3] = "route" /\ c[4] = "add" THEN
        IF c[9] \notin h.devices \/ h.route # NoRoute THEN Refused(h)
        ELSE Done([h EXCEPT !.route = <<c[7], c[9]>>])
    ELSE IF c[3] = "route" /\ c[4] = "del" THEN
        IF h.route = NoRoute THEN Refused(h)
        ELSE Done([h EXCEPT !.route = NoRoute])
    ELSE Refused(h)

\* execution.run_command_chain: the commands in order, stopping at the first
\* that fails; what was done before it stays done.
RECURSIVE run_command_chain(_, _)
run_command_chain(h, commands) ==
    IF commands = <<>> THEN Done(h)
    ELSE LET r == Exec(h, Head(commands))
         IN IF r.ok THEN run_command_chain(r.host, Tail(commands))
            ELSE Refused(r.host)

check_device_existence(h, device) == device \in h.devices

\* ------------------------------------------------------------ the builder
\* A builder as a record; raised holds the exception of the request.
Builder ==
    [creation_commands |-> creation_commands,
     deletion_commands |-> deletion_commands, raised |-> NoError]

Record(b, creation, deletion) ==
    [b EXCEPT !.creation_commands = @ \o creation,
              !.deletion_commands = @ \o deletion]

\* The first exception among the validations made in order, or NoError.
FirstError(checks) ==
    IF \A i \in 1..Len(checks) : checks[i] = NoError THEN NoError
    ELSE checks[CHOOSE i \in 1..Len(checks) :
                    /\ checks[i] # NoError
                    /\ \A j \in 1..(i - 1) : checks[j] = NoError]

\* Mutant: the bridge is created whether or not it exists.
_create_bridge_always(b, h, bridge_device) ==
    IF validate_device_name(Spelling(bridge_device)) # NoError
    THEN [b EXCEPT !.raised = validate_device_name(Spelling(bridge_device))]
    ELSE Record(b, <<LinkAddBridge(bridge_device), LinkSetUp(bridge_device)>>,
                <<LinkDel(bridge_device)>>)

_create_bridge(b, h, bridge_device) ==
    IF validate_device_name(Spelling(bridge_device)) # NoError
    THEN [b EXCEPT !.raised = validate_device_name(Spelling(bridge_device))]
    ELSE IF check_device_existence(h, bridge_device) THEN b
    ELSE Record(b, <<LinkAddBridge(bridge_device), LinkSetUp(bridge_device)>>,
                <<LinkDel(bridge_device)>>)

bridged_network(b, h, bridge_device, phys_device, ip, gateway, flush_ip_device) ==
    LET invalid == FirstError(<<
            validate_device_name(Spelling(bridge_device)),
            validate_device_name(Spelling(phys_device)),
            IF ip # None THEN validate_ip_address(ip) ELSE NoError,
            IF gateway # None THEN validate_ip_address(gateway) ELSE NoError>>)
        b1 == _create_bridge(b, h, bridge_device)
        b2 == Record(b1,
                <<LinkSetUp(phys_device),
                  LinkSetMaster(phys_device, bridge_device),
                  AddrFlush(phys_device)>>
                \o (IF ip # None /\ flush_ip_device
                    THEN <<AddrFlush(bridge_device)>> ELSE <<>>)
                \o (IF ip # None THEN <<AddrAdd(ip, bridge_device)>> ELSE <<>>)
                \o (IF gateway # None
                    THEN <<RouteAddDefault(gateway, bridge_device)>> ELSE <<>>),
                (IF gateway # None
                 THEN <<RouteAddDefault(gateway, phys_device), RouteDelDefault>>
                 ELSE <<>>)
                \o (IF ip # None THEN <<AddrAdd(ip, phys_device)>> ELSE <<>>)
                \o <<LinkSetNomaster(phys_device)>>)
    IN IF invalid # NoError THEN [b EXCEPT !.raised = invalid] ELSE b2

\* Mutant: an enslaved TAP device gets no release entry.
tap_device_unreleased(b, h, tap_device_name, user, bridge_device) ==
    LET invalid == FirstError(<<
            validate_device_name(Spelling(tap_device_name)),
            IF bridge_device # None
            THEN validate_device_name(Spelling(bridge_device)) ELSE NoError>>)
    IN IF invalid # NoError THEN [b EXCEPT !.raised = invalid]
       ELSE IF check_device_existence(h, tap_device_name) THEN b
       ELSE Record(b,
              <<TuntapAdd(tap_device_name, user), LinkSetDevUp(tap_device_name)>>
              \o (IF bridge_device # None
                  THEN <<LinkSetMaster(tap_device_name, bridge_device)>>
                  ELSE <<>>),
              <<LinkDel(tap_device_name)>>)

tap_device(b, h, tap_device_name, user, bridge_device) ==
    LET invalid == FirstError(<<
            validate_device_name(Spelling(tap_device_name)),
            IF bridge_device # None
            THEN validate_device_name(Spelling(bridge_device)) ELSE NoError>>)
    IN IF invalid # NoError THEN [b EXCEPT !.raised = invalid]
       ELSE IF check_device_existence(h, tap_device_name) THEN b
       ELSE Record(b,
              <<TuntapAdd(tap_device_name, user), LinkSetDevUp(tap_device_name)>>
              \o (IF bridge_device # None
                  THEN <<LinkSetMaster(tap_device_name, bridge_device)>>
                  ELSE <<>>),
              <<LinkDel(tap_device_name)>>
              \o (IF bridge_device # None
                  THEN <<LinkSetNomaster(tap_device_name)>> ELSE <<>>))

\* Mutant: the deletion entries in recorded order.
not_reversed(commands) == commands

reversed(commands) ==
    [i \in 1..Len(commands) |-> commands[Len(commands) + 1 - i]]

\* What setup() and teardown() hand to run_command_chain.
setup_commands(b) == b.creation_commands
teardown_commands(b) == reversed(b.deletion_commands)

\* shlex.quote: a word made only of safe characters is left as it is, any
\* other is put between single quotes.  (The words of the model hold no
\* single quote.)
UnsafeWords == Users \cup {"not-an-ip!!", "tap0\n"}
shlex_quote(word) == IF word \in UnsafeWords THEN <<"'", word, "'">> ELSE <<word>>

\* shlex.join: the quoted words, one space between two of them.
RECURSIVE shlex_join(_)
shlex_join(command) ==
    IF command = <<>> THEN <<>>
    ELSE shlex_quote(Head(command))
         \o (IF Len(command) > 1 THEN <<" ">> ELSE <<>>)
         \o shlex_join(Tail(command))

\* How the shell splits a line written by shlex_join into words again.
RECURSIVE shell_split(_)
shell_split(line) ==
    IF line = <<>> THEN <<>>
    ELSE IF Head(line) = " " THEN shell_split(Tail(line))
    ELSE IF Head(line) = "'" THEN <<line[2]>> \o shell_split(SubSeq(line, 4, Len(line)))
    ELSE <<Head(line)>> \o shell_split(Tail(line))

Shebang == <<"#!/usr/bin/env bash">>

\* _to_script: the lines of the script.
_to_script(commands) ==
    <<Shebang>> \o [i \in 1..Len(commands) |-> shlex_join(commands[i])]

setup_script(b) == _to_script(b.creation_commands)
teardown_script(b) == _to_script(reversed(b.deletion_commands))

\* ------------------------------------------------- the builder's actions
\* The hosts a builder may find: the uplink exists; a default route goes
\* through it only when it is up and has an address.
InitialHosts ==
    {h \in
    {[devices |-> {"eth0"} \cup others,
      up |-> others \cup eth_up,
      master |-> {},
      addrs |-> addrs,
      route |-> route] :
        others \in SUBSET {"br0", "tap0"},
        eth_up \in {{}, {"eth0"}},
        addrs \in {{}, {<<"eth0", "10.0.0.2/24">>}, {<<"eth0", "10.0.0.9/24">>}},
        route \in {NoRoute, <<"10.0.0.1", "eth0">>}} :
      h.route # NoRoute => ("eth0" \in h.up /\ h.addrs # {})}

BuilderInit ==
    /\ creation_commands = <<>>
    /\ deletion_commands = <<>>
    /\ raised = NoError
    /\ host \in InitialHosts
    /\ host0 = host
    /\ phase = "build"
    /\ chain_ok = TRUE
    /\ requests = 0

NetInit == OrchestratorInit /\ frontend = "queue" /\ BuilderInit /\ UnitsUnused

\* A request has returned (or raised): the builder's lists are what it left.
Requested(b) ==
    /\ phase = "build" /\ requests < MaxRequests
    /\ creation_commands' = b.creation_commands
    /\ deletion_commands' = b.deletion_commands
    /\ raised' = b.raised
    /\ requests' = requests + 1
    /\ UNCHANGED <<host, host0, phase, chain_ok>>
    /\ UNCHANGED <<orchestrator_vars, unit_vars>>

CreateBridge ==
    /\ phase = "build"
    /\ \E bridge \in BridgeNames :
          Requested(_create_bridge(Builder, host, bridge))

BridgedNetwork ==
    /\ phase = "build"
    /\ \E bridge \in BridgeNames, phys \in PhysNames, ip \in IpOptions,
          gateway \in GatewayOptions, flush \in BOOLEAN :
          Requested(bridged_network(Builder, host, bridge, phys, ip, gateway, flush))

TapDevice ==
    /\ phase = "build"
    /\ \E tap \in TapNames, user \in Users, bridge \in {None, "br0"} :
          Requested(tap_device(Builder, host, tap, user, bridge))

Setup ==
    /\ phase = "build"
    /\ LET r == run_command_chain(host, setup_commands(Builder))
       IN /\ host' = r.host
          /\ chain_ok' = r.ok
    /\ host0' = host
    /\ phase' = "up"
    /\ UNCHANGED <<creation_commands, deletion_commands, raised, requests>>
    /\ UNCHANGED <<orchestrator_vars, unit_vars>>

Teardown ==
    /\ phase = "up"
    /\ LET r == run_command_chain(host, teardown_commands(Builder))
       IN /\ host' = r.host
          /\ chain_ok' = r.ok
    /\ phase' = "down"
    /\ UNCHANGED <<creation_commands, deletion_commands, raised, requests, host0>>
    /\ UNCHANGED <<orchestrator_vars, unit_vars>>

\* Iproute2Network(): another builder is made on the host as it is now.
NewBuilder ==
    /\ phase = "up" /\ requests < MaxRequests
    /\ creation_commands' = <<>>
    /\ deletion_commands' = <<>>
    /\ raised' = NoError
    /\ phase' = "build"
    /\ UNCHANGED <<host, host0, chain_ok, requests>>
    /\ UNCHANGED <<orchestrator_vars, unit_vars>>

NetNext ==
    \/ CreateBridge
    \/ BridgedNetwork
    \/ TapDevice
    \/ Setup
    \/ Teardown
    \/ NewBuilder

NetSpec == NetInit /\ [][NetNext]_vars

\* ================================================================= claims
\* What a handler leaves of the state outside its own reply.
Effects(s) ==
    <<s.services, s.started_services, s.enabled_services, s.user_images,
      s.resource_files, s.established_vpns, s.available_vpn_ports,
      s.assigned_prefixes, s.vpn_config>>

\* create_vm({image: "base"}): no init-script, no attachment.
PlainOptions ==
    [image |-> <<"base">>, init_script |-> FALSE, vpn |-> NoOption,
     public_ip |-> FALSE]

\* create_vm resumed after its first yield, in the current state.
Resume(options, port, fail) ==
    create_vm_body([Here EXCEPT !.events = events], cmd.vm_id, options, port, fail)

PoppedPorts == IF available_vpn_ports = {} THEN {0} ELSE available_vpn_ports

\* The state a handler leaves, as the next command finds it.
NextCommand(s) == [s EXCEPT !.events = <<>>, !.error = NoError, !.calls = <<>>]

\* Every list_vms reply given in state s lists exactly the ids in ids.
ListsExactly(s, ids) ==
    \A guest \in [all_vms(s) \cap running_vms(s) -> GuestOutcomes] :
        LET l == list_vms(NextCommand(s), guest)
        IN l.error = NoError =>
             /\ Len(l.events) = 1
             /\ {e.vm_id : e \in l.events[1].vms} = ids

\* The stages of the lifecycle after create_vm, from any state in which X's
\* descriptor exists, every supervisor call succeeding.
C1_LaterStages(X) ==
    LET unit == systemd_unit_name_for_vm(X)
        k == stop_vm(Here, X, TRUE, "ok", {})
        st == start_vm(Here, X, {})
        d == delete_vm(Here, X, {})
    IN (pc = "idle" /\ unit \in services) =>
         /\ ListsExactly(Here, all_vms(Here)) /\ X \in all_vms(Here)
         /\ k.error = NoError /\ Len(k.events) = 1
         /\ k.events[1].status = "killed" /\ k.events[1].vm_id = X
         /\ unit \notin k.started_services /\ unit \in k.services
         /\ ListsExactly(k, all_vms(k)) /\ X \in all_vms(k)
         /\ st.error = NoError /\ Len(st.events) = 1
         /\ st.events[1].status = "starting" /\ st.events[1].vm_id = X
         /\ unit \in st.started_services
         /\ d.error = NoError /\ d.events = <<Event("deleted", X, "")>>
         /\ ListsExactly(d, all_vms(d)) /\ X \notin all_vms(d)

\* create_vm({image: "base"}) resumed with the failures in fail.
C1_CreateStage(fail) ==
    pc = "create" =>
        LET X == cmd.vm_id
            r == Resume(PlainOptions, 0, fail)
        IN /\ r.error = NoError
           /\ r.events = <<Event("allocating", X, ""), Event("starting", X, "")>>
           /\ ListsExactly(r, all_vms(r)) /\ X \in all_vms(r)

\* Once X is no longer listed, only a create_vm that draws the id X anew
\* lists it again.
C1_DeletedStaysUnlisted ==
    \A X \in VmIds :
        (/\ systemd_unit_name_for_vm(X) \notin services
         /\ systemd_unit_name_for_vm(X) \in services')
        => (pc = "create" /\ cmd.vm_id = X)

C2_UnknownIdNotFound ==
    pc = "idle" =>
      \A X \in VmIds :
        systemd_unit_name_for_vm(X) \notin services =>
          /\ \A fail \in Failures(StartFailPoints) :
               LET r == start_vm(Here, X, fail)
               IN /\ r.error = E_VmDoesNotExist /\ r.error \in NotFoundErrors
                  /\ r.events = <<>> /\ r.calls = <<>>
                  /\ Effects(r) = Effects(Here)
          /\ \A kill \in BOOLEAN, monitor \in MonitorOutcomes,
                fail \in Failures(StopFailPoints) :
               LET r == stop_vm(Here, X, kill, monitor, fail)
               IN /\ r.error = E_VmDoesNotExist
                  /\ r.events = <<>> /\ r.calls = <<>>
                  /\ Effects(r) = Effects(Here)
          /\ \A fail \in Failures(DeleteFailPoints) :
               LET r == delete_vm(Here, X, fail)
               IN /\ r.error = E_VmDoesNotExist
                  /\ r.events = <<>> /\ r.calls = <<>>
                  /\ Effects(r) = Effects(Here)

\* C2 witness: delete_vm failed with not-found on an id that has a disk image
\* but no descriptor.
C2_Witness ==
    /\ pc = "idle" /\ cmd.command = "delete-vm" /\ error = E_VmDoesNotExist
    /\ cmd.vm_id \in user_images
    /\ systemd_unit_name_for_vm(cmd.vm_id) \notin services

\* The network scripts kept in X's private resource directory.
ResourceDir(s, X) == {f \in s.resource_files : f[1] = "vm" /\ f[2] = X}

\* The operations the command made on a unit, in order.
CallsOn(s, name) ==
    LET Sel(c) == c[2] = name
    IN [i \in 1..Len(SelectSeq(s.calls, Sel)) |-> SelectSeq(s.calls, Sel)[i][1]]

\* C3: after delete_vm(X) succeeded on an existing VM, X's descriptor, disk
\* image and resource directory are gone, X is not running and list_vms does
\* not report X; delete_vm does not fail for want of a resource directory.
C3_DeleteLeavesNothing ==
    /\ (pc = "idle" /\ cmd.command = "delete-vm" /\ error = NoError) =>
          LET X == cmd.vm_id
          IN /\ events = <<Event("deleted", X, "")>>
             /\ systemd_unit_name_for_vm(X) \notin services
             /\ X \notin user_images
             /\ ResourceDir(Here, X) = {}
             /\ systemd_unit_name_for_vm(X) \notin started_services
             /\ X \notin all_vms(Here)
    /\ pc = "idle" =>
          \A X \in all_vms(Here) :
              ResourceDir(Here, X) = {} => delete_vm(Here, X, {}).error = NoError

\* C4: when create_vm emits the final starting event for X, X's descriptor is
\* registered, started and enabled in the supervisor.
C4_StartingMeansEnabled ==
    (/\ pc = "idle" /\ cmd.command = "create-vm"
     /\ Len(events) = 2 /\ events[2].status = "starting") =>
        LET unit == systemd_unit_name_for_vm(cmd.vm_id)
        IN /\ events[2].vm_id = cmd.vm_id
           /\ unit \in services
           /\ unit \in started_services
           /\ unit \in enabled_services

\* C5: if a step of create_vm after the allocating event fails (an exception,
\* or the supervisor returning failure for a call), create_vm ends with an
\* error after the allocating event and never emits starting for that id.
C5_FailureMeansError ==
    (/\ pc = "idle" /\ cmd.command = "create-vm"
     /\ (error # NoError \/ \E i \in 1..Len(calls) : ~calls[i][3])) =>
        /\ error # NoError
        /\ events = <<Event("allocating", cmd.vm_id, "")>>

\* The steps of create_vm that raise although the base image exists.
CloneErrors == {E_CreateImage}
InjectionErrors == {E_Mount}
AttachmentErrors ==
    {E_NoPort, E_Netname, E_Vpn, E_MaxNetworks, E_PrefixAssigned, E_NoRadvd,
     E_TincArguments}

\* create_vm naming a missing base image: not-found, only allocating yielded,
\* nothing called, nothing registered, started or written.
C6_MissingImage(options, r) ==
    (options.image # NoOption /\ basename(options.image) \notin BaseImages) =>
        /\ r.error = E_ImageMissing /\ r.error \in NotFoundErrors
        /\ r.events = <<Event("allocating", cmd.vm_id, "")>>
        /\ r.calls = <<>>
        /\ Effects(r) = Effects(Here)

Succeeds(r) ==
    /\ r.error = NoError
    /\ r.events = <<Event("allocating", cmd.vm_id, ""),
                    Event("starting", cmd.vm_id, "")>>

C7_FreshId ==
    pc = "create" =>
        /\ systemd_unit_name_for_vm(cmd.vm_id) \notin services
        /\ cmd.vm_id \notin user_images

\* C8: stop_vm on an existing VM that is not running succeeds with the "was
\* not running" hint, calls nothing and changes nothing; called again it
\* does the same, so any number of calls leaves the state of one call.
C8_StopIdempotent ==
    pc = "idle" =>
      \A X \in all_vms(Here) :
        ~service_is_running(Here, systemd_unit_name_for_vm(X)) =>
          \A kill \in BOOLEAN, monitor \in MonitorOutcomes,
             fail \in Failures(StopFailPoints) :
            LET r == stop_vm(Here, X, kill, monitor, fail)
                again == stop_vm(NextCommand(r), X, kill, monitor, fail)
            IN /\ r.error = NoError
               /\ r.events = <<Event(IF kill THEN "killed" ELSE "stopped",
                                     X, "was not running")>>
               /\ r.calls = <<>>
               /\ Effects(r) = Effects(Here)
               /\ again = r

\* C8 witness: a stop_vm answered "was not running" for a VM that is still
\* registered and enabled.
C8_Witness ==
    /\ pc = "idle" /\ cmd.command = "stop-vm" /\ error = NoError
    /\ Len(events) = 1 /\ events[1].hint = "was not running"
    /\ calls = <<>>
    /\ systemd_unit_name_for_vm(cmd.vm_id) \in services \cap enabled_services

\* C9: start_vm on an existing running VM yields starting with a hint and
\* calls neither start nor enable; on an existing VM that is not running it
\* starts and enables the descriptor, after which the VM is running and
\* enabled.
C9_StartVm ==
    pc = "idle" =>
      \A X \in all_vms(Here), fail \in Failures(StartFailPoints) :
        LET unit == systemd_unit_name_for_vm(X)
            r == start_vm(Here, X, fail)
        IN IF service_is_running(Here, unit)
           THEN /\ r.error = NoError
                /\ r.events = <<Event("starting", X, "was already started")>>
                /\ r.calls = <<>>
                /\ Effects(r) = Effects(Here)
           ELSE /\ r.error = NoError
                /\ r.events = <<Event("starting", X, "")>>
                /\ CallsOn(r, unit) = <<"start", "enable">>
                /\ unit \in r.started_services
                /\ unit \in r.enabled_services

\* C10: stop_vm on a running VM: with kill the supervisor stops it, so when
\* killed is emitted the VM is not running and its descriptor is registered;
\* without kill only the power-down is sent on the monitor channel, the
\* supervisor's stop is never called, and stopped is emitted with the VM
\* left as it was.
C10_StopRunning ==
    pc = "idle" =>
      \A X \in all_vms(Here) \cap running_vms(Here),
         monitor \in MonitorOutcomes, fail \in Failures(StopFailPoints) :
        LET unit == systemd_unit_name_for_vm(X)
            k == stop_vm(Here, X, TRUE, monitor, fail)
            g == stop_vm(Here, X, FALSE, monitor, fail)
        IN /\ k.events = <<Event("killed", X, "")>> =>
                /\ unit \notin k.started_services
                /\ unit \in k.services
           /\ \E i \in 1..Len(k.calls) : k.calls[i][1] = "stop"
           /\ \A i \in 1..Len(g.calls) : g.calls[i][1] # "stop"
           /\ \E i \in 1..Len(g.calls) : g.calls[i][1] = "qmp"
           /\ monitor = "ok" =>
                /\ g.events = <<Event("stopped", X, "")>>
                /\ g.started_services = started_services

\* Something of X is left on the host: its descriptor, its disk image or a
\* script in its resource directory.
Remnants(s, X) ==
    \/ systemd_unit_name_for_vm(X) \in s.services
    \/ X \in s.user_images
    \/ ResourceDir(s, X) # {}

\* C11: after a create_vm for X failed partway, or a delete_vm(X) failed
\* partway, with something of X left behind, delete_vm(X) called again
\* succeeds and leaves no descriptor, disk image or resource directory of X.
C11_DeleteReconciles ==
    (/\ pc = "idle"
     /\ \/ cmd.command = "create-vm" /\ error # NoError
        \/ cmd.command = "delete-vm" /\ error = E_UnlinkImage
     /\ Remnants(Here, cmd.vm_id)) =>
        LET d == delete_vm(Here, cmd.vm_id, {})
        IN /\ d.error = NoError
           /\ d.events = <<Event("deleted", cmd.vm_id, "")>>
           /\ ~Remnants(d, cmd.vm_id)

\* C12: for every known running VM a failed guest-agent query (no socket,
\* no reply in time, a reply that is empty or malformed) becomes a hint on
\* that VM's entry with an empty address list, and list_vms still yields the
\* complete list.
C12_GuestNeverFailsList ==
    pc = "idle" =>
      \A guest \in [all_vms(Here) \cap running_vms(Here) -> GuestOutcomes] :
        LET l == list_vms(Here, guest)
        IN /\ l.error = NoError
           /\ Len(l.events) = 1
           /\ {e.vm_id : e \in l.events[1].vms} = all_vms(Here)
           /\ \A e \in l.events[1].vms :
                (e.vm_id \in DOMAIN guest /\ guest[e.vm_id] # "ips") =>
                    e.hint # "" /\ e.ip_addresses = "[]"

\* The ids whose VM descriptor is registered in the supervisor.
RegisteredVms(s) == {X \in VmIds : systemd_unit_name_for_vm(X) \in s.services}

C14_NoMessageCrashes ==
    /\ pc # "crashed"
    /\ (pc = "idle" /\ cmd.command \in BadMessages) =>
           Len(sent) = 1 /\ sent[1].status = "error"
    /\ (pc = "idle" /\ error # NoError) =>
           Len(sent) > 0 /\ sent[Len(sent)] = ErrorEnvelope(error)

\* The envelopes sent for the handled command are one success envelope per
\* event, in the order yielded, then one error envelope iff the handler raised.
C15_EnvelopesFollowEvents ==
    (/\ frontend = "queue"
     /\ pc \in {"idle", "create"} /\ cmd.command \in HandlerCommands) =>
        /\ Len(sent) = Len(events) + (IF error # NoError THEN 1 ELSE 0)
        /\ \A i \in 1..Len(events) : sent[i] = SuccessEnvelope(events[i])
        /\ error # NoError => sent[Len(sent)] = ErrorEnvelope(error)
        /\ pc = "create" => sent = <<SuccessEnvelope(Event("allocating", cmd.vm_id, ""))>>

\* While a command is between two of its events only that command goes on,
\* and what it sends is appended to what it has sent.
C15_NoInterleaving ==
    pc = "create" =>
        /\ cmd'.command = cmd.command /\ cmd'.vm_id = cmd.vm_id
        /\ Len(sent') >= Len(sent)
        /\ SubSeq(sent', 1, Len(sent)) = sent

\* C15: for a command whose handler yields e1..en the requester is sent n
\* success envelopes carrying e1..en in that order; if the handler then fails
\* one error envelope follows and nothing after it; the envelopes of two
\* commands are never interleaved.
C15_EnvelopeOrder ==
    /\ []C15_EnvelopesFollowEvents
    /\ [][C15_NoInterleaving]_vars

\* C15 witness: a create_vm was answered with the success envelope of
\* allocating followed by one error envelope.
C15_Witness ==
    /\ pc = "idle" /\ cmd.command = "create-vm"
    /\ Len(sent) = 2
    /\ sent[1] = SuccessEnvelope(Event("allocating", cmd.vm_id, ""))
    /\ sent[2].status = "error" /\ sent[2].reason = error

\* While a command is between two of its steps, the next step is its own.
C16_Sequential ==
    pc = "create" => cmd'.command = cmd.command /\ cmd'.vm_id = cmd.vm_id

\* A port taken from the pool is never handed out again, a registered overlay
\* stays registered and its daemon is never installed a second time.
C16_RaceFree ==
    /\ available_vpn_ports' \subseteq available_vpn_ports
    /\ \A n \in DOMAIN established_vpns :
         /\ n \in DOMAIN established_vpns'
         /\ established_vpns'[n] = established_vpns[n]
         /\ \A i \in 1..Len(calls') :
              ~(calls'[i][1] = "install" /\ calls'[i][2] = _service_name(n))

\* C16: on the queue listener and on HTTP alike the steps of two commands
\* never interleave, the overlay registry and the port pool belong to exactly
\* one handler instance, and so no port is taken twice and no registered
\* overlay is seen as unregistered.
C16_OneSequentialOwner ==
    /\ [](handlers <= 1)
    /\ [][C16_Sequential]_vars
    /\ [][C16_RaceFree]_vars

\* ---------------------------------------------------------------- C17
\* What the round trip is said to preserve: devices, bridge memberships,
\* addresses and the default route.
HostNetwork(h) ==
    [devices |-> h.devices, master |-> h.master,
     addrs |-> h.addrs, route |-> h.route]

SetupSucceeded == run_command_chain(host0, setup_commands(Builder)).ok

\* C17: whenever setup() succeeded on the host as it was and teardown() has
\* then run, the host's devices, bridge memberships, addresses and default
\* route are exactly what they were before setup().
C17_RoundTrip ==
    (phase = "down" /\ SetupSucceeded) => HostNetwork(host) = HostNetwork(host0)

\* ---------------------------------------------------------------- C18
\* The commands a script holds: its lines after the shebang, split into
\* words as the shell splits them.
ScriptCommands(script) ==
    [i \in 1..(Len(script) - 1) |-> shell_split(script[i + 1])]

\* C18: teardown() and teardown_script() hold exactly the recorded deletion
\* entries, each once, in the reverse of the recorded order; setup() and
\* setup_script() hold the recorded creation entries in recorded order; the
\* script of a builder holds the commands of its direct mode, in order.
C18_SameCommandsBothModes ==
    LET n == Len(deletion_commands)
        down == teardown_commands(Builder)
    IN /\ Len(down) = n
       /\ \A i \in 1..n : down[i] = deletion_commands[n + 1 - i]
       /\ setup_commands(Builder) = creation_commands
       /\ setup_script(Builder)[1] = Shebang
       /\ teardown_script(Builder)[1] = Shebang
       /\ ScriptCommands(setup_script(Builder)) = setup_commands(Builder)
       /\ ScriptCommands(teardown_script(Builder)) = down

\* A builder with several different deletion entries and a quoted word in
\* its script has been set up and torn down.
C18_Witness ==
    /\ phase = "down"
    /\ Len(deletion_commands) >= 3
    /\ deletion_commands[1] # deletion_commands[Len(deletion_commands)]
    /\ \E i \in 1..Len(creation_commands) :
          \E j \in 1..Len(creation_commands[i]) :
              creation_commands[i][j] \in UnsafeWords
    /\ \E i \in 2..Len(setup_script(Builder)) :
          Len(setup_script(Builder)[i]) > 2 * Len(creation_commands[i - 1]) - 1

\* ---------------------------------------------------------------- C19
\* The device a command creates, None for a command that creates none.
Creates(c) ==
    IF c[3] = "link" /\ c[4] = "add" THEN c[5]
    ELSE IF c[3] = "tuntap" /\ c[4] = "add" THEN c[6]
    ELSE None

\* The command at which run_command_chain stops, <<>> when all succeed.
RECURSIVE FirstRefused(_, _)
FirstRefused(h, commands) ==
    IF commands = <<>> THEN <<>>
    ELSE IF Exec(h, Head(commands)).ok
         THEN FirstRefused(Exec(h, Head(commands)).host, Tail(commands))
         ELSE Head(commands)

\* The commands a request added to the builder's creation entries.
Added(b) ==
    SubSeq(b.creation_commands, Len(creation_commands) + 1,
           Len(b.creation_commands))

NoneCreates(commands, device) ==
    \A i \in 1..Len(commands) : Creates(commands[i]) # device

\* A request that names a device the host already has validates the name,
\* raises nothing for a valid name and records no command creating it.
C19_ExistingDeviceSkipped ==
    /\ \A bridge \in BridgeNames :
          LET b == _create_bridge(Builder, host, bridge)
          IN check_device_existence(host, bridge) =>
                /\ b.raised = validate_device_name(Spelling(bridge))
                /\ NoneCreates(Added(b), bridge)
    /\ \A bridge \in BridgeNames, phys \in PhysNames,
          gateway \in GatewayOptions, flush \in BOOLEAN :
          LET b == bridged_network(Builder, host, bridge, phys,
                                   "10.0.0.2/24", gateway, flush)
          IN check_device_existence(host, bridge) =>
                /\ b.raised = NoError
                /\ NoneCreates(Added(b), bridge)
    /\ \A tap \in TapNames, user \in Users, bridge \in {None, "br0"} :
          LET b == tap_device(Builder, host, tap, user, bridge)
          IN check_device_existence(host, tap) =>
                /\ b.raised = NoError
                /\ NoneCreates(Added(b), tap)

\* setup() has not stopped at a command that creates a device the host
\* already had at that point.
C19_NoDoubleCreation ==
    phase = "up" =>
        LET c == FirstRefused(host0, setup_commands(Builder))
        IN c # <<>> => (Creates(c) = None \/ Creates(c) \notin host.devices)

\* C19: each bridge, TAP and uplink request is idempotent: for a device that
\* exists it validates the name, raises no error and records no command
\* creating the device again, and so no repetition of requests, on one
\* builder or after the device was set up, makes setup() fail by creating a
\* device twice.
C19_Idempotent == C19_ExistingDeviceSkipped /\ C19_NoDoubleCreation

\* setup() stops at the creation of a device that exists only when the
\* builder's own creation entries create that device twice.
C19_DoubleCreationOnlyWithinBuilder ==
    phase = "up" =>
        LET c == FirstRefused(host0, setup_commands(Builder))
        IN (c # <<>> /\ Creates(c) # None /\ Creates(c) \in host.devices) =>
              \E i, j \in 1..Len(creation_commands) :
                  i < j /\ Creates(creation_commands[i]) = Creates(c)
                        /\ Creates(creation_commands[j]) = Creates(c)

\* C19 (as the code has it): a request naming a device that exists on the
\* host when the request is made validates the name, raises no error and
\* records no command creating it again; setup() fails at a double creation
\* only when one builder was asked twice for a device that did not exist yet.
C19_IdempotentOnExistingDevice ==
    C19_ExistingDeviceSkipped /\ C19_DoubleCreationOnlyWithinBuilder

\* A second builder was asked for an uplink on a bridge that a first builder
\* had set up: it attaches the uplink and records no creation of the bridge.
C19_Witness ==
    /\ phase = "build" /\ raised = NoError
    /\ "br0" \in host.devices /\ "br0" \notin host0.devices
    /\ \E i \in 1..Len(creation_commands) :
          creation_commands[i] = LinkSetMaster("eth0", "br0")
    /\ NoneCreates(creation_commands, "br0")

\* ---------------------------------------------------------------- C20
\* The names validate_device_name is tried on: every string of up to two
\* characters of the alphabet, the names the requests use, and names at the
\* length limit.
Repeat(ch, n) == [i \in 1..n |-> ch]

NameInputs ==
    UNION {[1..n -> Alphabet] : n \in 0..2}
    \cup {Spelling(name) : name \in BridgeNames \cup PhysNames \cup TapNames}
    \cup {Repeat("a", MaxDeviceNameLen), Repeat("a", MaxDeviceNameLen + 1),
          Repeat("a", MaxDeviceNameLen - 1) \o <<"\n">>,
          Repeat("a", MaxDeviceNameLen) \o <<"\n">>}

\* The rule as stated: non-empty, at most 15 characters, all in [a-z0-9-].
StatedValidName(chars) ==
    /\ Len(chars) > 0
    /\ Len(chars) <= MaxDeviceNameLen
    /\ \A i \in 1..Len(chars) : chars[i] \in DeviceNameChars

C20_AcceptsIffStated ==
    \A chars \in NameInputs :
        (validate_device_name(chars) = NoError) <=> StatedValidName(chars)

\* Every device a recorded command creates has a name that passed
\* validate_device_name, so it obeys the stated rule.
C20_RecordedNamesValid ==
    \A i \in 1..Len(creation_commands) :
        Creates(creation_commands[i]) # None =>
            StatedValidName(Spelling(Creates(creation_commands[i])))

\* C20: validate_device_name accepts a name if and only if it is non-empty,
\* at most 15 characters long and made only of characters in [a-z0-9-];
\* every other string (a newline in it included) is rejected.
C20_ValidateDeviceName == C20_RecordedNamesValid /\ C20_AcceptsIffStated

\* The same equivalence on the names that do not end in a newline.
C20_AcceptsIffStatedNoNewline ==
    \A chars \in NameInputs :
        (Len(chars) = 0 \/ chars[Len(chars)] # "\n") =>
            ((validate_device_name(chars) = NoError) <=> StatedValidName(chars))

\* ===================================================== the Radvd on its own
\* Calls made on the Radvd in one run.
MaxRadvdCalls == 4

\* The numbers of prefixes already assigned when a run begins.
StartCounts == {0, 9, 9999}

InterfaceNames == {"my-interface"}

\* The prefix generate_prefix returns while n prefixes are assigned.
PrefixAt(n) == <<VPN_48_PREFIX, str(n)>>

\* The Radvd after n rounds of generate_prefix and add_interface.
RadvdAfter(n) ==
    /\ assigned_prefixes = {PrefixAt(k) : k \in 0..(n - 1)}
    /\ radvd_conf = [k \in 1..n |-> <<"my-interface", PrefixAt(k - 1)>>]
    /\ radvd_mode \in IF n = 0 THEN {CreatedMode, OwnerWritable} ELSE {ReadOnly}

RadvdInit ==
    /\ HandlerInit /\ frontend = "queue"
    /\ BuilderUnused
    /\ UnitsUnused
    /\ \E n \in StartCounts : RadvdAfter(n)

GeneratePrefix ==
    /\ radvd_calls < MaxRadvdCalls
    /\ radvd_calls' = radvd_calls + 1
    /\ IF generate_prefix_raises(Here)
       THEN radvd_error' = E_MaxNetworks /\ issued' = issued
       ELSE radvd_error' = NoError /\ issued' = Append(issued, generate_prefix(Here))
    /\ UNCHANGED <<orchestrator_vars, builder_vars, monitor_vars, fetch_vars>>

\* The prefixes add_interface is called with: those generate_prefix returned,
\* the first of the /48 and the one after the next.
PrefixArguments ==
    {issued[i] : i \in 1..Len(issued)}
    \cup {PrefixAt(0), PrefixAt(Cardinality(assigned_prefixes) + 1)}

AddInterface ==
    /\ radvd_calls < MaxRadvdCalls
    /\ radvd_calls' = radvd_calls + 1
    /\ \E interface_name \in InterfaceNames, prefix \in PrefixArguments :
         LET r == add_interface(Here, interface_name, prefix)
         IN /\ assigned_prefixes' = r.assigned_prefixes
            /\ radvd_conf' = r.radvd_conf
            /\ radvd_mode' = r.radvd_mode
            /\ radvd_error' = r.error
    /\ UNCHANGED <<handler_vars, builder_vars, issued, monitor_vars,
                   fetch_vars>>

RadvdNext ==
    \/ GeneratePrefix
    \/ AddInterface

RadvdSpec == RadvdInit /\ [][RadvdNext]_vars

\* ---------------------------------------------------------------- C21
\* The prefixes add_interface has accepted, in order.
Accepted == [i \in 1..Len(radvd_conf) |-> radvd_conf[i][2]]

\* No value stands at two places of seq.
PairwiseDistinct(seq) ==
    Cardinality({seq[i] : i \in 1..Len(seq)}) = Len(seq)

\* C21: generate_prefix never returns a value it has returned before: over
\* any sequence of generate_prefix and add_interface calls the prefixes
\* returned are pairwise distinct, and no prefix is accepted twice.
C21_NeverRepeats ==
    /\ PairwiseDistinct(issued)
    /\ PairwiseDistinct(Accepted)

\* No prefix is accepted twice (the part of C21 that add_interface keeps).
C21_AcceptedOnce == PairwiseDistinct(Accepted)

\* ---------------------------------------------------------------- C22
\* What add_interface may change: the configuration file's content and
\* permission bits and the set of assigned prefixes.
RadvdState(s) ==
    [content |-> s.radvd_conf, mode |-> s.radvd_mode,
     assigned |-> s.assigned_prefixes]

\* add_interface called now with a prefix that is assigned raises and leaves
\* the file and the set as they are.
C22_RejectsAssigned ==
    \A interface_name \in InterfaceNames, prefix \in PrefixArguments :
        prefix \in assigned_prefixes =>
            LET r == add_interface(Here, interface_name, prefix)
            IN /\ r.error = E_PrefixAssigned
               /\ RadvdState(r) = RadvdState(Here)

\* A call that ended with the already-assigned error changed nothing.
C22_FailedCallChangedNothing ==
    (radvd_calls' # radvd_calls /\ radvd_error' = E_PrefixAssigned) =>
        UNCHANGED <<radvd_conf, radvd_mode, assigned_prefixes>>

\* C22: add_interface with a prefix that was already assigned fails with a
\* RadvdException and changes nothing: the configuration file's content and
\* permission bits and the set of assigned prefixes are as before the call.
C22_AssignedPrefixRefused ==
    /\ []C22_RejectsAssigned
    /\ [][C22_FailedCallChangedNothing]_vars

\* An add_interface was refused for a prefix this Radvd had itself accepted
\* in an earlier call, the file being read-only.
C22_Witness ==
    /\ radvd_error = E_PrefixAssigned
    /\ radvd_calls >= 2
    /\ radvd_conf # <<>> /\ radvd_mode = ReadOnly
    /\ issued # <<>> /\ issued[1] \in assigned_prefixes

\* ---------------------------------------------------------------- C23
HexDigits ==
    {"0", "1", "2", "3", "4", "5", "6", "7", "8", "9",
     "a", "b", "c", "d", "e", "f", "A", "B", "C", "D", "E", "F"}

\* A group of an IPv6 address: one to four hexadecimal digits (16 bits).
WellFormedGroup(group) ==
    /\ Len(group) \in 1..4
    /\ \A i \in 1..Len(group) : group[i] \in HexDigits

\* Every prefix issued is a well-formed /64 inside the configured /48.
C23_IssuedWellFormed ==
    \A i \in 1..Len(issued) :
        /\ issued[i][1] = VPN_48_PREFIX
        /\ WellFormedGroup(issued[i][2])

\* generate_prefix fails only when 65536 prefixes have been assigned.
C23_FailsWhenExhausted ==
    radvd_error = E_MaxNetworks => Cardinality(assigned_prefixes) >= MaxPrefixes

\* C23: the k-th prefix issued (k = 0 .. 65535) is a /64 under the
\* configured /48 whose fourth group is a 16-bit value of at most four
\* hexadecimal digits, so it is a well-formed IPv6 prefix; once 65536
\* prefixes have been issued generate_prefix fails.
C23_NextPrefixWellFormed == C23_IssuedWellFormed /\ C23_FailsWhenExhausted

\* ---------------------------------------------------------------- C24
\* create_vm({image: "base", vpn: name}).
VpnCreateOptions(name) ==
    [image |-> <<"base">>, init_script |-> FALSE, vpn |-> name,
     public_ip |-> FALSE]

\* The overlay names of VpnOptions, and those the name validation accepts.
VpnNames == {<<"n", "1">>, <<"N", "1">>}
ValidVpnNames == {name \in VpnNames : _validate_netname(name)}

InstallsOf(s, service_name) ==
    {i \in 1..Len(s.calls) :
        s.calls[i][1] = "install" /\ s.calls[i][2] = service_name}

\* The first reference to an overlay, every tool and supervisor call
\* succeeding and a port being free: one port leaves the pool, the overlay's
\* config is written, one daemon is registered and the overlay is in the
\* registry with that port.
C24_FirstReferenceCreates(name, r) ==
    /\ r.error = NoError
    /\ Cardinality(available_vpn_ports \ r.available_vpn_ports) = 1
    /\ name \in DOMAIN r.vpn_config
    /\ Cardinality(InstallsOf(r, _service_name(name))) = 1
    /\ name \in DOMAIN r.established_vpns
    /\ r.established_vpns[name] \in available_vpn_ports \ r.available_vpn_ports

\* A later reference: the pool, the overlay's config and daemon and the
\* router-advertisement file are left alone.
C24_LaterReferenceReuses(name, r) ==
    /\ r.error = NoError
    /\ r.available_vpn_ports = available_vpn_ports
    /\ r.established_vpns = established_vpns
    /\ r.vpn_config = vpn_config
    /\ InstallsOf(r, _service_name(name)) = {}
    /\ r.radvd_conf = radvd_conf /\ r.assigned_prefixes = assigned_prefixes

\* An overlay is known when its persisted config exists or the handler of
\* the queue listener has it in its registry.
KnownOverlay(name) ==
    name \in DOMAIN vpn_config \/ name \in DOMAIN established_vpns

\* C24: over any sequence of create_vm commands naming the same overlay the
\* overlay is created once: the first reference allocates one port, writes
\* keys and config and registers one daemon; every later reference, on the
\* queue listener or on HTTP, reuses it, allocates no port and re-creates
\* neither config, daemon nor router-advertisement block.
C24_OverlayCreatedOnce ==
    (pc = "create" /\ available_vpn_ports # {}) =>
        \A name \in ValidVpnNames, port \in available_vpn_ports :
            LET r == Resume(VpnCreateOptions(name), port, {})
            IN IF KnownOverlay(name)
               THEN C24_LaterReferenceReuses(name, r)
               ELSE C24_FirstReferenceCreates(name, r)

C26_LaterCommandsSucceed(r) ==
    LET n == NextCommand(r)
    IN \A vm_id \in VmIds \ r.user_images :
          /\ create_vm_body(n, vm_id, PlainOptions, 0, {}).error = NoError
          /\ \A name \in DOMAIN r.established_vpns :
                create_vm_body(n, vm_id, VpnCreateOptions(name), 0, {}).error
                    = NoError

\* C26: on the queue listener, when the port pool is empty a create_vm that
\* needs a new overlay fails for that request only: the request gets the
\* error envelope of the empty pool, the registry and the pool are unchanged,
\* the callback returns (the listener is idle again, not crashed), and the
\* commands that follow still succeed.
C26_ExhaustedPoolFailsOneRequest ==
    /\ [](pc = "create" /\ frontend = "queue" /\ available_vpn_ports = {} =>
            \A name \in VpnNames \ DOMAIN established_vpns :
               LET r == Resume(VpnCreateOptions(name), 0, {})
               IN /\ r.error = E_NoPort
                  /\ Replies(r, Len(sent)) = <<ErrorEnvelope(E_NoPort)>>
                  /\ r.established_vpns = established_vpns
                  /\ r.available_vpn_ports = available_vpn_ports
                  /\ C26_LaterCommandsSucceed(r))
    /\ [][pc = "create" /\ frontend = "queue" /\ available_vpn_ports = {}
            => pc' = "idle"]_vars

\* The pool is empty and the create_vm handled last failed on it; the
\* listener is idle, ready for the next command.
C26_Witness ==
    /\ frontend = "queue"
    /\ available_vpn_ports = {}
    /\ pc = "idle"
    /\ cmd.command = "create-vm"
    /\ error = E_NoPort
    /\ sent = <<SuccessEnvelope(Event("allocating", cmd.vm_id, "")),
                ErrorEnvelope(E_NoPort)>>

\* ---------------------------------------------------------------- C27
\* The TAP device create_vm gives VM vm_id for its overlay.
VpnTapDevice(vm_id) == <<"vpn-", vm_id>>

\* The script files of a TAP device of VM vm_id.
TapScripts(vm_id, tap_name) ==
    {setup_script_path(vm_id, tap_name), teardown_script_path(vm_id, tap_name)}

\* C27: every create_vm with a vpn option (no step of it failing, and a port
\* being available when the overlay is new) gives the VM its own TAP device
\* named after the VM id, with its setup and teardown scripts in the VM's
\* resource directory and the VM's descriptor installed with them; the
\* scripts are files of no other VM.
C27_OwnTapPerVm ==
    pc = "create" =>
        \A name \in ValidVpnNames, port \in PoppedPorts :
            (name \in DOMAIN established_vpns \/ available_vpn_ports # {}) =>
                LET r == Resume(VpnCreateOptions(name), port, {})
                    scripts == TapScripts(cmd.vm_id, VpnTapDevice(cmd.vm_id))
                IN /\ r.error = NoError
                   /\ scripts \subseteq ResourceDir(r, cmd.vm_id)
                   /\ \A other \in VmIds \ {cmd.vm_id} :
                         scripts \cap ResourceDir(r, other) = {}
                   /\ systemd_unit_name_for_vm(cmd.vm_id) \in r.services

\* ======================================================= restart of the process
\* The overlay directories the starting process finds under
\* VPN_CONFIG_FOLDER: every valid overlay name was established by an earlier
\* process, its directory written by create_config with the overlay's port in
\* tinc.conf (here the first configured port).
PersistedOverlays == [n \in ValidVpnNames |-> FirstVpnPort]

\* The process that keeps a registry is the queue listener.
RestartInit ==
    /\ HandlerStart /\ frontend = "queue"
    /\ vpn_config = PersistedOverlays
    /\ RadvdConstructed
    /\ BuilderUnused
    /\ UnitsUnused

\* The process ends (stopped, or its callback raised) and is started again.
\* Unit files, running units, disk images, resource directories and overlay
\* directories stay.  The module-level pool is the configured set again.  On
\* the queue listener run() constructs the Radvd (the file exists: chmod
\* 0o600, then truncated), installs and starts its unit and constructs the
\* handler with an empty registry.
Restart ==
    /\ pc \in {"idle", "crashed"}
    /\ pc' = "idle"
    /\ cmd' = Command("restart", "", FALSE, NoOption)
    /\ events' = <<>>
    /\ error' = NoError
    /\ calls' = <<>>
    /\ sent' = <<>>
    /\ acked' = <<>>
    /\ frontend' = frontend
    /\ handlers' = IF frontend = "queue" THEN 1 ELSE 0
    /\ available_vpn_ports' = VPN_PORTS
    /\ established_vpns' = EmptyRegistry
    /\ IF frontend = "queue"
       THEN /\ services' = services \cup {RADVD_SERVICE_NAME}
            /\ started_services' = started_services \cup {RADVD_SERVICE_NAME}
            /\ assigned_prefixes' = {}
            /\ radvd_conf' = <<>>
            /\ radvd_mode' = OwnerWritable
       ELSE UNCHANGED <<services, started_services, assigned_prefixes,
                        radvd_conf, radvd_mode>>
    /\ UNCHANGED <<enabled_services, user_images, resource_files, vpn_config>>
    /\ UNCHANGED <<builder_vars, unit_vars>>

RestartNext ==
    \/ Next
    \/ Restart

RestartSpec == RestartInit /\ [][RestartNext]_vars

\* ---------------------------------------------------------------- C28
\* C28: after the orchestrator restarts, its registry contains every overlay
\* that has a persisted directory, each with its saved port, and the port of
\* a persisted overlay is not in the pool, so it cannot be allocated to a
\* different overlay.
C28_RegistryRestored ==
    cmd.command = "restart" =>
        \A name \in DOMAIN vpn_config :
            /\ name \in DOMAIN established_vpns
            /\ established_vpns[name] = vpn_config[name]
            /\ vpn_config[name] \notin available_vpn_ports

\* ==================================== the hypervisor control-channel client
MaxExecutes == 2

QemuProtocols == {"QMP", "QGA"}

\* The timeout argument: None, or the 0.1 s of the tests.
Timeouts == {"None", "0.1"}

\* What listens on the socket file: nothing, the monitor of a VM (sends a
\* greeting, then one reply per message), its guest agent (one reply per
\* message).
Peers == {"none", "monitor", "agent"}

CallerCommands == {"system_powerdown", "guest-network-get-interfaces"}

\* prepend_byte of _initialize_guest_agent.
Sentinel == "<0xff>"

E_ConnectionRefused == "ConnectionRefusedError: [Errno 111] Connection refused"
E_SocketTimeout == "socket.timeout: timed out"
E_Unreachable ==
    "QemuException: Could not communicate with QEMU, is QMP server or GA running?"
E_TimedOutObject == "OSError: cannot read from timed out object"

\* A line of the peer: the greeting, or the reply ("return" or "error") to
\* the message that stands at place re of what the client has sent.
Line(kind, re) == [kind |-> kind, re |-> re]

NoLine == Line("none", 0)

\* A line left for a previous client of the guest agent's channel: it answers
\* no message of this client and carries no id this client has sent.
Stale == Line("stale", 0)

MaxStale == 2

\* What waits on a guest agent's channel when a guest-agent client connects.
StaleQueues == {[i \in 1..n |-> Stale] : n \in 0..MaxStale}

\* The socket operations of the client.
Sendall(what) ==
    [op |-> "sendall", what |-> what, via |-> "self.sock", returns |-> FALSE]

\* A read of one line through self.f.readline() or self.readline(); returns
\* tells whether execute() returns the line to its caller.
Readline(via, returns) ==
    [op |-> "readline", what |-> "", via |-> via, returns |-> returns]

execute(command) == <<Sendall(command), Readline("self.readline", TRUE)>>

\* Mutant: the greeting is not read.
_initialize_qmp_without_greeting == execute("qmp_capabilities")

_initialize_qmp ==
    <<Readline("self.f.readline", FALSE)>> \o execute("qmp_capabilities")

_initialize_guest_agent ==
    <<Sendall(Sentinel)>> \o execute("guest-sync")
        \o <<Readline("self.readline", FALSE)>>

_initialize(p) ==
    IF p = "QMP" THEN _initialize_qmp ELSE _initialize_guest_agent

\* Mutant: socket.timeout is not caught.
readline_uncaught(via) == E_SocketTimeout

\* What a read that times out raises: QemuMonitor.readline turns
\* socket.timeout into QemuException, self.f.readline() lets it through.
readline(via) ==
    IF via = "self.readline" THEN E_Unreachable ELSE E_SocketTimeout

MonitorInit ==
    /\ HandlerInit /\ frontend = "queue"
    /\ RadvdConstructed
    /\ BuilderUnused
    /\ RadvdUnused
    /\ FetchUnused
    /\ monitor_pc = "start"
    /\ protocol \in QemuProtocols
    /\ timeout \in Timeouts
    /\ peer \in Peers
    /\ peer_state = PeerWaiting
    /\ to_peer = <<>>
    /\ to_client \in (IF protocol = "QGA" /\ peer = "agent"
                       THEN StaleQueues ELSE {<<>>})
    /\ todo = <<>>
    /\ exchange = <<>>
    /\ monitor_error = NoError
    /\ timed_out = FALSE

\* An entry of exchange: a send (n its place in to_peer), a read, or a line
\* returned by the execute() that sent message n.
Sent(n) == [ev |-> "send", n |-> n, line |-> NoLine]

Read(line) == [ev |-> "read", n |-> 0, line |-> line]

Returned(n, line) == [ev |-> "return", n |-> n, line |-> line]

\* The call in progress has nothing left to do: __init__ or execute returns.
EndOfCall(rest) ==
    monitor_pc' = IF rest = <<>> THEN "ready" ELSE monitor_pc

\* QemuMonitor.__init__ up to _initialize: connect raises when nothing
\* listens.
Connect ==
    /\ monitor_pc = "start"
    /\ IF peer = "none"
       THEN /\ monitor_pc' = "dead"
            /\ monitor_error' = E_ConnectionRefused
            /\ todo' = <<>>
       ELSE /\ monitor_pc' = "init"
            /\ monitor_error' = NoError
            /\ todo' = _initialize(protocol)
    /\ UNCHANGED <<protocol, timeout, peer, peer_state, to_peer, to_client,
                   exchange, timed_out>>
    /\ UNCHANGED <<orchestrator_vars, builder_vars, radvd_unit_vars, fetch_vars>>

\* self.sock.sendall(...)
MonitorSend ==
    /\ monitor_pc \in {"init", "call"}
    /\ todo # <<>> /\ Head(todo).op = "sendall"
    /\ to_peer' = Append(to_peer, Head(todo).what)
    /\ exchange' = Append(exchange, Sent(Len(to_peer) + 1))
    /\ todo' = Tail(todo)
    /\ EndOfCall(Tail(todo))
    /\ UNCHANGED <<protocol, timeout, peer, peer_state, to_client,
                   monitor_error, timed_out>>
    /\ UNCHANGED <<orchestrator_vars, builder_vars, radvd_unit_vars, fetch_vars>>

\* A read finds a line: it is consumed, and returned if the read is that of
\* execute().
MonitorRead ==
    /\ monitor_pc \in {"init", "call"}
    /\ todo # <<>> /\ Head(todo).op = "readline"
    /\ ~timed_out
    /\ to_client # <<>>
    /\ to_client' = Tail(to_client)
    /\ exchange' = exchange \o <<Read(Head(to_client))>>
                    \o (IF Head(todo).returns
                        THEN <<Returned(Len(to_peer), Head(to_client))>>
                        ELSE <<>>)
    /\ todo' = Tail(todo)
    /\ EndOfCall(Tail(todo))
    /\ UNCHANGED <<protocol, timeout, peer, peer_state, to_peer,
                   monitor_error, timed_out>>
    /\ UNCHANGED <<orchestrator_vars, builder_vars, radvd_unit_vars, fetch_vars>>

\* A read finds no line before the timeout set by settimeout expires: the
\* call raises; raised in __init__, no object is constructed.
MonitorTimeout ==
    /\ monitor_pc \in {"init", "call"}
    /\ todo # <<>> /\ Head(todo).op = "readline"
    /\ ~timed_out
    /\ to_client = <<>>
    /\ timeout # "None"
    /\ timed_out' = TRUE
    /\ monitor_error' = readline(Head(todo).via)
    /\ todo' = <<>>
    /\ monitor_pc' = IF monitor_pc = "init" THEN "dead" ELSE "ready"
    /\ UNCHANGED <<protocol, timeout, peer, peer_state, to_peer, to_client,
                   exchange>>
    /\ UNCHANGED <<orchestrator_vars, builder_vars, radvd_unit_vars, fetch_vars>>

\* A read of the file object after one of its reads has timed out raises
\* OSError at once.
MonitorReadTimedOut ==
    /\ monitor_pc = "call"
    /\ todo # <<>> /\ Head(todo).op = "readline"
    /\ timed_out
    /\ monitor_error' = E_TimedOutObject
    /\ todo' = <<>>
    /\ monitor_pc' = "ready"
    /\ UNCHANGED <<protocol, timeout, peer, peer_state, to_peer, to_client,
                   exchange, timed_out>>
    /\ UNCHANGED <<orchestrator_vars, builder_vars, radvd_unit_vars, fetch_vars>>

\* The executes callers have made.
CallerSends == {i \in 1..Len(to_peer) : to_peer[i] \in CallerCommands}

\* A caller calls execute(command) on the constructed monitor.
MonitorExecute ==
    /\ monitor_pc = "ready"
    /\ Cardinality(CallerSends) < MaxExecutes
    /\ \E command \in CallerCommands : todo' = execute(command)
    /\ monitor_pc' = "call"
    /\ monitor_error' = NoError
    /\ UNCHANGED <<protocol, timeout, peer, peer_state, to_peer, to_client,
                   exchange, timed_out>>
    /\ UNCHANGED <<orchestrator_vars, builder_vars, radvd_unit_vars, fetch_vars>>

\* The monitor sends its greeting once it has accepted the connection.
PeerGreets ==
    /\ peer = "monitor"
    /\ monitor_pc \notin {"start", "unused"}
    /\ ~peer_state.greeted
    /\ peer_state' = [peer_state EXCEPT !.greeted = TRUE]
    /\ to_client' = Append(to_client, Line("greeting", 0))
    /\ UNCHANGED <<monitor_pc, protocol, timeout, peer, to_peer, todo,
                   exchange, monitor_error, timed_out>>
    /\ UNCHANGED <<orchestrator_vars, builder_vars, radvd_unit_vars, fetch_vars>>

\* What the remote answers a message with: a result, or an error object (an
\* application-level error); execute() returns either to its caller.
ReplyKinds == {"return", "error"}

\* The peer reads the next line and answers it with one line.  The sentinel
\* byte stands in front of the line that follows it: that line is no UTF-8,
\* the peer's thread ends without an answer.
PeerAnswers ==
    /\ peer \in {"monitor", "agent"}
    /\ peer_state.alive
    /\ peer = "monitor" => peer_state.greeted
    /\ peer_state.seen < Len(to_peer)
    /\ IF to_peer[peer_state.seen + 1] = Sentinel
       THEN /\ peer_state.seen + 2 <= Len(to_peer)
            /\ peer_state' = [peer_state EXCEPT !.alive = FALSE,
                                                !.seen = @ + 2]
            /\ to_client' = to_client
       ELSE /\ peer_state' = [peer_state EXCEPT !.seen = @ + 1]
            /\ \E kind \in ReplyKinds :
                 to_client' = Append(to_client, Line(kind, peer_state.seen + 1))
    /\ UNCHANGED <<monitor_pc, protocol, timeout, peer, to_peer, todo,
                   exchange, monitor_error, timed_out>>
    /\ UNCHANGED <<orchestrator_vars, builder_vars, radvd_unit_vars, fetch_vars>>

MonitorNext ==
    \/ Connect
    \/ MonitorSend
    \/ MonitorRead
    \/ MonitorTimeout
    \/ MonitorReadTimedOut
    \/ MonitorExecute
    \/ PeerGreets
    \/ PeerAnswers

MonitorSpec == MonitorInit /\ [][MonitorNext]_vars

\* ---------------------------------------------------------------- C29
\* The places of exchange that hold an entry of kind ev.
Places(ev) == {i \in 1..Len(exchange) : exchange[i].ev = ev}

\* C29: on a QMP connection the client sends nothing before it has read
\* exactly one line, the greeting; the first message it sends is
\* qmp_capabilities; the execute() of qmp_capabilities has returned (its
\* reply is consumed) before any later message is sent; and every execute()
\* returns the reply to the message it sent itself.
C29_HandshakeBeforeCommands ==
    protocol = "QMP" =>
        /\ \A i \in Places("send") :
              exchange[i].n = 1 =>
                  /\ i = 2
                  /\ exchange[1] = Read(Line("greeting", 0))
        /\ to_peer # <<>> => to_peer[1] = "qmp_capabilities"
        /\ \A i \in Places("send") :
              exchange[i].n > 1 =>
                  \E j \in Places("return") : j < i /\ exchange[j].n = 1
        /\ \A j \in Places("return") : exchange[j].line.re = exchange[j].n

\* Two caller commands have been executed on a QMP connection after the
\* handshake, each returning a reply.
C29_Witness ==
    /\ protocol = "QMP"
    /\ monitor_pc = "ready"
    /\ monitor_error = NoError
    /\ Len(to_peer) = 3
    /\ Cardinality(Places("return")) = 3

\* A read that finds a line returns, and a timeout that was set expires.
MonitorLive ==
    /\ MonitorSpec
    /\ WF_vars(MonitorRead)
    /\ WF_vars(MonitorTimeout)
    /\ WF_vars(MonitorReadTimedOut)

\* ---------------------------------------------------------------- C30
\* The client is in a read, of a call that has k socket operations left.
Reading(k) ==
    /\ monitor_pc \in {"init", "call"}
    /\ Len(todo) = k
    /\ Head(todo).op = "readline"

\* C30: with a timeout configured every read of the client ends, in the
\* handshake and in execute(), whatever the peer does or does not send; a read
\* of execute() that ends by the timeout makes execute() raise the
\* 'unreachable' QemuException; that exception is raised for nothing else:
\* a refused connection raises its own error in __init__, and an error reply
\* of the remote is returned by execute() without any exception.
C30_TimeoutEndsEveryRead ==
    /\ \A k \in 1..Len(_initialize_guest_agent) :
          (timeout # "None" /\ Reading(k)) ~> ~Reading(k)
    /\ [][(~timed_out /\ timed_out' /\ Head(todo).via = "self.readline")
              => monitor_error' = E_Unreachable]_vars
    /\ [](/\ monitor_error = E_Unreachable => timed_out /\ peer # "none"
          /\ peer = "none" /\ monitor_pc # "start"
                => monitor_pc = "dead" /\ monitor_error = E_ConnectionRefused
          /\ \A j \in Places("return") :
                (j = Len(exchange) /\ exchange[j].line.kind = "error")
                    => monitor_error = NoError)

\* A caller's execute() on a connection with a timeout got no reply in time
\* and raised the 'unreachable' error.
C30_Witness ==
    /\ timeout # "None"
    /\ monitor_pc = "ready"
    /\ to_peer[Len(to_peer)] \in CallerCommands
    /\ monitor_error = E_Unreachable
    /\ timed_out

\* ---------------------------------------------------------------- C31
\* The reply to this client's guest-sync: the one line that carries the id
\* the client sent (guest-sync stands at place 2 of what it sends).
SyncReply == Line("return", 2)

\* The handshake of __init__ is complete.
Constructed == monitor_pc \in {"ready", "call"}

\* C31: on a guest-agent connection the client sends the sentinel byte first
\* and guest-sync second; the handshake completes only when the client has
\* read the reply carrying the id it sent; and no execute() returns a line
\* that does not answer the message that execute() sent.
C31_SyncRequiresNonce ==
    protocol = "QGA" =>
        /\ Len(to_peer) >= 1 => to_peer[1] = Sentinel
        /\ Len(to_peer) >= 2 => to_peer[2] = "guest-sync"
        /\ Constructed =>
              \E i \in Places("read") : exchange[i].line = SyncReply
        /\ \A j \in Places("return") :
              exchange[j].n > 2 => exchange[j].line.re = exchange[j].n

\* ============================================== GuestAgentIpAddress parsing
MaxInterfaces == 2

MaxAddresses == 2

\* The sequences over S of length at most n.
SeqUpTo(S, n) == UNION {[1..k -> S] : k \in 0..n}

\* An element of an 'ip-addresses' list: an object with or without the key
\* 'ip-address', or a string.
Address(kind, ip) == [kind |-> kind, ip |-> ip]

AddressValues ==
    {Address("dict", "10.0.0.2"), Address("dict", "absent"),
     Address("str", "absent")}

\* An element of the 'return' list: an object whose key 'ip-addresses' is
\* absent, null or a list, or a string.
Interface(kind, addrs, addresses) ==
    [kind |-> kind, addrs |-> addrs, addresses |-> addresses]

InterfaceValues ==
    {Interface("dict", "absent", <<>>), Interface("dict", "null", <<>>),
     Interface("str", "absent", <<>>)}
    \cup {Interface("dict", "list", a) :
             a \in SeqUpTo(AddressValues, MaxAddresses)}

\* The replies execute() can return: any JSON value.  An object has the key
\* 'return' or not (an error object has 'error' instead); under 'return'
\* stands a list, the empty object, a number, a string or null.
Replies_of_agent ==
    {Reply("dict", "list", i) : i \in SeqUpTo(InterfaceValues, MaxInterfaces)}
    \cup {Reply("dict", r, <<>>) : r \in {"absent", "dict", "int", "str", "null"}}
    \cup {Reply(top, "absent", <<>>) : top \in {"list", "int", "null"}}

E_TypeError == "TypeError"

\* The state of the two loops: the addresses appended and how the loops
\* ended ("" while they run, else the exception raised).
Loop(ips, raised_by) == [ips |-> ips, raised |-> raised_by]

\* for address in interface['ip-addresses']: ips.append(address['ip-address'])
RECURSIVE addresses_loop(_, _)
addresses_loop(addresses, ips) ==
    IF addresses = <<>> THEN Loop(ips, "")
    ELSE LET address == Head(addresses)
         IN IF address.kind # "dict" THEN Loop(ips, "TypeError")
            ELSE IF address.ip = "absent" THEN Loop(ips, "KeyError")
            ELSE addresses_loop(Tail(addresses), Append(ips, address.ip))

\* for interface in response['return']: ...
RECURSIVE interfaces_loop(_, _)
interfaces_loop(interfaces, ips) ==
    IF interfaces = <<>> THEN Loop(ips, "")
    ELSE LET interface == Head(interfaces)
             inner == addresses_loop(interface.addresses, ips)
         IN IF interface.kind # "dict" THEN Loop(ips, "TypeError")
            ELSE IF interface.addrs = "absent" THEN Loop(ips, "KeyError")
            ELSE IF interface.addrs # "list" THEN Loop(ips, "TypeError")
            ELSE IF inner.raised # "" THEN inner
            ELSE interfaces_loop(Tail(interfaces), inner.ips)

\* KeyError is caught and gives [], every other exception leaves the method.
_parse_ips_from_response(response) ==
    LET loop ==
          IF response.top # "dict" THEN Loop(<<>>, "TypeError")
          ELSE IF response.ret = "absent" THEN Loop(<<>>, "KeyError")
          ELSE IF response.ret = "dict" THEN Loop(<<>>, "")
          ELSE IF response.ret # "list" THEN Loop(<<>>, "TypeError")
          ELSE interfaces_loop(response.interfaces, <<>>)
    IN IF loop.raised = "TypeError" THEN FetchResult(TRUE, <<>>, E_TypeError)
       ELSE IF loop.raised = "KeyError" THEN FetchResult(TRUE, <<>>, NoError)
       ELSE FetchResult(TRUE, loop.ips, NoError)

FetchInit ==
    /\ HandlerInit /\ frontend = "queue"
    /\ RadvdConstructed
    /\ BuilderUnused
    /\ RadvdUnused
    /\ MonitorUnused
    /\ resp \in Replies_of_agent
    /\ fetch_result = FetchResult(FALSE, <<>>, NoError)

\* fetch_ip_addresses, from the reply of execute() on.
FetchIpAddresses ==
    /\ ~fetch_result.done
    /\ fetch_result' = _parse_ips_from_response(resp)
    /\ UNCHANGED resp
    /\ UNCHANGED <<orchestrator_vars, builder_vars, radvd_unit_vars, monitor_vars>>

FetchSpec == FetchInit /\ [][FetchIpAddresses]_vars

\* ---------------------------------------------------------------- C32
\* Every address of every interface of the reply is an object with an
\* 'ip-address'.
WellFormedReply(response) ==
    /\ response.top = "dict" /\ response.ret = "list"
    /\ \A i \in 1..Len(response.interfaces) :
          LET interface == response.interfaces[i]
          IN /\ interface.kind = "dict" /\ interface.addrs = "list"
             /\ \A a \in 1..Len(interface.addresses) :
                   /\ interface.addresses[a].kind = "dict"
                   /\ interface.addresses[a].ip # "absent"

\* C32: fetch_ip_addresses never raises because of the shape of the reply,
\* and returns the empty list for every reply that is malformed or lacks an
\* expected field.
C32_MalformedReplyGivesNoAddresses ==
    fetch_result.done =>
        /\ fetch_result.error = NoError
        /\ ~WellFormedReply(resp) => fetch_result.ips = <<>>

\* ---------------------------------------------------------------- C33
\* How many of the commands pass a test.
Count(commands, Test(_)) ==
    Cardinality({i \in 1..Len(commands) : Test(commands[i])})

\* The deletion entries a request added to the builder.
AddedDeletions(b) ==
    SubSeq(b.deletion_commands, Len(deletion_commands) + 1,
           Len(b.deletion_commands))

RecordedDevices == BridgeNames \cup PhysNames \cup TapNames
RecordedAddresses == (IpOptions \cup GatewayOptions) \ {None}

\* The creation entries and the deletion entries correspond one to one:
\* creations of a device and its deletions, enslavements of a device and its
\* releases, default routes through a bridge and their restorations through
\* the uplink, addresses put on a bridge and their return to the uplink.
UndoRecorded(creation, deletion) ==
    /\ \A d \in RecordedDevices :
          /\ Count(creation, LAMBDA c : Creates(c) = d)
                = Count(deletion, LAMBDA c : c = LinkDel(d))
          /\ Count(creation, LAMBDA c : \E m \in RecordedDevices :
                                            c = LinkSetMaster(d, m))
                = Count(deletion, LAMBDA c : c = LinkSetNomaster(d))
    /\ \A a \in RecordedAddresses :
          /\ Count(creation, LAMBDA c : \E d \in BridgeNames :
                                            c = RouteAddDefault(a, d))
                = Count(deletion, LAMBDA c : \E d \in PhysNames :
                                            c = RouteAddDefault(a, d))
          /\ Count(creation, LAMBDA c : \E d \in BridgeNames : c = AddrAdd(a, d))
                = Count(deletion, LAMBDA c : \E d \in PhysNames : c = AddrAdd(a, d))
    /\ Count(creation, LAMBDA c : \E a \in RecordedAddresses, d \in BridgeNames :
                                      c = RouteAddDefault(a, d))
          = Count(deletion, LAMBDA c : c = RouteDelDefault)

\* A request for a device the host has adds neither its creation nor its
\* deletion.
ExistingDeviceUnrecorded(b, device) ==
    check_device_existence(host, device) =>
        /\ NoneCreates(Added(b), device)
        /\ Count(AddedDeletions(b), LAMBDA c : c = LinkDel(device)) = 0

\* C33: each builder request records the undo of what it creates when it
\* records the creation: every created bridge or TAP has a delete entry,
\* every enslavement a release entry, every default route moved to the bridge
\* an entry restoring it on the physical device, every IP put on the bridge an
\* entry re-adding it to the physical device; a device that already existed
\* gets neither a creation nor a deletion entry.
C33_UndoRecordedWithCreation ==
    /\ UndoRecorded(creation_commands, deletion_commands)
    /\ \A bridge \in BridgeNames :
          ExistingDeviceUnrecorded(_create_bridge(Builder, host, bridge), bridge)
    /\ \A bridge \in BridgeNames, phys \in PhysNames, ip \in IpOptions,
          gateway \in GatewayOptions, flush \in BOOLEAN :
          LET b == bridged_network(Builder, host, bridge, phys, ip, gateway, flush)
          IN ExistingDeviceUnrecorded(b, bridge)
    /\ \A tap \in TapNames, user \in Users, bridge \in {None, "br0"} :
          LET b == tap_device(Builder, host, tap, user, bridge)
          IN ExistingDeviceUnrecorded(b, tap)

\* A builder has recorded a new bridge with the uplink's address and default
\* route moved to it and an enslaved new TAP device, and for a TAP device
\* that existed nothing.
C33_Witness ==
    /\ phase = "build" /\ raised = NoError /\ requests >= 2
    /\ "br0" \notin host.devices
    /\ \E i \in 1..Len(creation_commands) :
          creation_commands[i] = LinkAddBridge("br0")
    /\ \E i \in 1..Len(creation_commands) :
          creation_commands[i] = RouteAddDefault("10.0.0.1", "br0")
    /\ \E i \in 1..Len(creation_commands) :
          creation_commands[i] = AddrAdd("10.0.0.2/24", "br0")
    /\ \E i \in 1..Len(creation_commands) :
          creation_commands[i] = LinkSetMaster("tap0", "br0")
    /\ Len(deletion_commands) = 7

\* ---------------------------------------------------------------- C34
\* add_interface called now, when it succeeds, leaves the file read-only
\* with its content followed by one block of the given interface and prefix.
C34_AppendsOneBlock ==
    \A interface_name \in InterfaceNames, prefix \in PrefixArguments :
        LET r == add_interface(Here, interface_name, prefix)
        IN r.error = NoError =>
              /\ r.radvd_mode = ReadOnly
              /\ r.radvd_conf = Append(radvd_conf, <<interface_name, prefix>>)
              /\ r.assigned_prefixes = assigned_prefixes \cup {prefix}

\* The file holds exactly one block per assigned prefix.
C34_OneBlockPerPrefix ==
    /\ {radvd_conf[i][2] : i \in 1..Len(radvd_conf)} = assigned_prefixes
    /\ Len(radvd_conf) = Cardinality(assigned_prefixes)

\* No call alters or removes a block the file holds.
C34_BlocksKept ==
    /\ Len(radvd_conf') >= Len(radvd_conf)
    /\ SubSeq(radvd_conf', 1, Len(radvd_conf)) = radvd_conf

\* C34: after every successful add_interface the configuration file is
\* read-only (0400) and is its previous content followed by one new block
\* naming the given interface and prefix; earlier blocks are never altered or
\* removed, and the file always holds exactly one block per assigned prefix.
C34_ConfigGrowsByBlocks ==
    /\ [](C34_AppendsOneBlock /\ C34_OneBlockPerPrefix)
    /\ [][C34_BlocksKept]_vars

\* Two add_interface calls have succeeded on a new Radvd: the read-only file
\* holds their two blocks in the order of the calls.
C34_Witness ==
    /\ radvd_error = NoError /\ radvd_mode = ReadOnly
    /\ Len(radvd_conf) = 2 /\ Cardinality(assigned_prefixes) = 2
    /\ radvd_conf[1][2] # radvd_conf[2][2]
    /\ \A i \in 1..2 : radvd_conf[i][1] \in InterfaceNames

\* ---------------------------------------------------------------- C35
\* The characters of the device names the orchestrator derives.
interface_name(netname) == <<"t", "i", "n", "c", "-">> \o netname
BridgeDeviceName(netname) == <<"t", "i", "n", "c", "b", "r", "-">> \o netname
VpnTapName(vm_id) == <<"v", "p", "n", "-">> \o vm_id
PubTapName(vm_id) == <<"p", "u", "b", "-">> \o vm_id

\* The overlay names validation is tried on: every string of up to three
\* characters of the alphabet and names at the length limit.
NetnameInputs ==
    UNION {[1..n -> Alphabet] : n \in 0..3}
    \cup {Repeat("a", MaxNetnameLen), Repeat("a", MaxNetnameLen + 1),
          Repeat("a", MaxNetnameLen - 1) \o <<"\n">>,
          Repeat("a", MaxNetnameLen) \o <<"\n">>}

\* The ids create_vm draws: eight letters of string.ascii_lowercase.
VmIdLength == 8
GeneratedIds == [1..VmIdLength -> {"a", "m", "z"}]

\* The device names derived from an accepted overlay name pass
\* validate_device_name as the code has it.
DerivedNamesPassValidation ==
    /\ \A netname \in NetnameInputs :
          _validate_netname(netname) =>
              /\ validate_device_name(interface_name(netname)) = NoError
              /\ validate_device_name(BridgeDeviceName(netname)) = NoError
    /\ \A vm_id \in GeneratedIds :
          /\ validate_device_name(VpnTapName(vm_id)) = NoError
          /\ validate_device_name(PubTapName(vm_id)) = NoError

\* C35: every device name the orchestrator derives is non-empty, at most 15
\* characters long and within [a-z0-9-]: the overlay interface name and the
\* overlay bridge name of every overlay name that overlay-name validation
\* accepts, the VPN TAP name and the public TAP name of every generated VM
\* id; distinct overlay names give distinct device names.
C35_DerivedNamesValid ==
    /\ \A netname \in DOMAIN vpn_config :
          /\ StatedValidName(interface_name(netname))
          /\ StatedValidName(BridgeDeviceName(netname))
    /\ \A netname \in NetnameInputs :
          _validate_netname(netname) =>
              /\ StatedValidName(interface_name(netname))
              /\ StatedValidName(BridgeDeviceName(netname))
    /\ \A vm_id \in GeneratedIds :
          /\ StatedValidName(VpnTapName(vm_id))
          /\ StatedValidName(PubTapName(vm_id))
    /\ \A n1, n2 \in NetnameInputs :
          (_validate_netname(n1) /\ _validate_netname(n2) /\ n1 # n2) =>
              /\ interface_name(n1) # interface_name(n2)
              /\ BridgeDeviceName(n1) # BridgeDeviceName(n2)
              /\ interface_name(n1) # BridgeDeviceName(n2)

\* The same on the overlay names that do not end in a newline.
C35_DerivedNamesValidNoNewline ==
    /\ DerivedNamesPassValidation
    /\ \A netname \in DOMAIN vpn_config :
          StatedValidName(BridgeDeviceName(netname))
    /\ \A netname \in NetnameInputs :
          (_validate_netname(netname) /\ netname[Len(netname)] # "\n") =>
              /\ StatedValidName(interface_name(netname))
              /\ StatedValidName(BridgeDeviceName(netname))

\* ---------------------------------------------------------------- C36
\* Unit names character by character: the word "aetherscale-vm-" and the
\* word ".service" stand for their characters, every other element is one
\* character.
UnitPrefix == "aetherscale-vm-"
UnitSuffix == ".service"

\* systemd_unit_name_for_vm on an id given as its characters.
UnitNameOf(vm_id) == <<UnitPrefix>> \o vm_id \o <<UnitSuffix>>

\* The longest run of [a-z0-9] that chars begins with.
RECURSIVE LowerAlnumRun(_)
LowerAlnumRun(chars) ==
    IF chars = <<>> \/ Head(chars) \notin LowerAlnum THEN <<>>
    ELSE <<Head(chars)>> \o LowerAlnumRun(Tail(chars))

\* re.match(r'aetherscale-vm-([a-z0-9]+)(?:\.service)?', systemd_unit):
\* the pattern is tried at the start of the name and need not reach its end;
\* group 1 is the run of [a-z0-9] after the prefix.  <<NotAVmUnit>> stands
\* for the ValueError.
VmIdOf(systemd_unit) ==
    IF /\ Len(systemd_unit) >= 2
       /\ Head(systemd_unit) = UnitPrefix
       /\ LowerAlnumRun(Tail(systemd_unit)) # <<>>
    THEN LowerAlnumRun(Tail(systemd_unit))
    ELSE <<NotAVmUnit>>

\* The ids and the unit names the two functions are tried on.
IdAlphabet == {"a", "9", "-", "A"}
IdInputs == UNION {[1..n -> IdAlphabet] : n \in 0..3}
UnitNameInputs ==
    {UnitNameOf(vm_id) : vm_id \in IdInputs}
    \cup {<<UnitPrefix>> \o vm_id \o rest :
            vm_id \in IdInputs,
            rest \in {<<>>, <<".">>, <<UnitSuffix, ".", "d">>, <<".", "s">>}}
    \cup {vm_id \o <<UnitSuffix>> : vm_id \in IdInputs}
    \cup {<<"x", UnitPrefix, "a", UnitSuffix>>}

\* Every unit the supervisor knows that is taken for a VM's is the
\* descriptor of the id read from it.
KnownUnitsRoundTrip ==
    \A u \in services :
        vm_id_from_systemd_unit(u) # NotAVmUnit =>
            u = systemd_unit_name_for_vm(vm_id_from_systemd_unit(u))

\* C36: vm_id_from_systemd_unit is the exact inverse of
\* systemd_unit_name_for_vm: parsing the descriptor name built from any VM
\* id returns that id, and a name is accepted only if it is the descriptor
\* name of some VM id; every other unit name is rejected with ValueError.
C36_ExactInverse ==
    /\ KnownUnitsRoundTrip
    /\ \A vm_id \in GeneratedIds : VmIdOf(UnitNameOf(vm_id)) = vm_id
    /\ \A name \in UnitNameInputs :
          VmIdOf(name) # <<NotAVmUnit>> => name = UnitNameOf(VmIdOf(name))

\* What the code keeps: the round trip on the ids made of [a-z0-9], and that
\* a name is accepted exactly when a character of [a-z0-9] follows the
\* prefix.
C36_RoundTripOnLowerAlnum ==
    /\ KnownUnitsRoundTrip
    /\ \A vm_id \in IdInputs \cup GeneratedIds :
          (vm_id # <<>> /\ \A i \in 1..Len(vm_id) : vm_id[i] \in LowerAlnum)
              => VmIdOf(UnitNameOf(vm_id)) = vm_id
    /\ \A name \in UnitNameInputs :
          VmIdOf(name) # <<NotAVmUnit>> <=>
              /\ Len(name) >= 2 /\ name[1] = UnitPrefix
              /\ name[2] \in LowerAlnum

\* ---------------------------------------------------------------- C37
\* stop_vm called now on a running VM disables the descriptor first; a
\* graceful stop whose monitor call fails ends with that exception, no
\* event, the VM running and the descriptor disabled.
C37_EveryStopDisablesFirst ==
    pc = "idle" =>
      \A X \in all_vms(Here) \cap running_vms(Here), kill \in BOOLEAN,
         monitor \in MonitorOutcomes, fail \in Failures(StopFailPoints) :
        LET unit == systemd_unit_name_for_vm(X)
            r == stop_vm(Here, X, kill, monitor, fail)
        IN /\ Len(r.calls) = 2
           /\ r.calls[1] = <<"disable", unit, TRUE>>
           /\ r.calls[2][1] = IF kill THEN "stop" ELSE "qmp"
           /\ (~kill /\ monitor # "ok") =>
                /\ r.error = E_MonitorSocket
                /\ r.events = <<>>
                /\ unit \in r.started_services
                /\ unit \notin r.enabled_services

\* A stop-vm command that ended with the monitor's error left the VM
\* running and its descriptor disabled.
C37_FailedGracefulStop ==
    (pc = "idle" /\ cmd.command = "stop-vm" /\ error = E_MonitorSocket) =>
        LET unit == systemd_unit_name_for_vm(cmd.vm_id)
        IN /\ unit \in started_services
           /\ unit \in services
           /\ unit \notin enabled_services
           /\ events = <<>>
           /\ calls = <<<<"disable", unit, TRUE>>, <<"qmp", cmd.vm_id, FALSE>>>>

C38_AckOnceAfterEnvelopes ==
    frontend = "queue" =>
        /\ (pc = "idle" /\ cmd.command \in HandlerCommands) =>
              /\ acked = <<Len(sent)>>
              /\ Len(sent) = Len(events) + (IF error # NoError THEN 1 ELSE 0)
        /\ pc = "create" => acked = <<>>
        /\ cmd.command \in {"no-command", "unknown-command"} =>
              acked = <<>> /\ sent = <<>>

\* A create-vm message whose handler raised after its first event was
\* acknowledged once, after the success and the error envelope.
C38_Witness ==
    /\ frontend = "queue" /\ pc = "idle" /\ cmd.command = "create-vm"
    /\ error # NoError
    /\ Len(sent) = 2 /\ sent[2].status = "error"
    /\ acked = <<2>>

\* A message without a command was dropped: no envelope, no acknowledgement.
C38_DroppedWitness ==
    /\ frontend = "queue" /\ pc = "idle" /\ cmd.command = "no-command"
    /\ sent = <<>> /\ acked = <<>>

\* ---------------------------------------------------------------- C39
NetworkingExceptions ==
    {E_ZeroLengthName, E_NameTooLong, E_InvalidDeviceName, E_InvalidIp}

\* A name or address given to a request that the stated rules do not allow
\* (None: the argument is not given).
InvalidName(name) == name # None /\ ~StatedValidName(Spelling(name))
InvalidAddress(ip_addr) == ip_addr # None /\ validate_ip_address(ip_addr) # NoError

\* The request raised a NetworkingException and left both lists as they were.
RaisedBeforeRecording(b) ==
    /\ b.raised \in NetworkingExceptions
    /\ b.creation_commands = creation_commands
    /\ b.deletion_commands = deletion_commands

\* C39: a builder request (bridged_network or tap_device) that is given an
\* invalid device name or an invalid address raises a NetworkingException
\* before it records anything: the creation and deletion lists are the same
\* as before the request.
C39_InvalidRequestRecordsNothing ==
    /\ \A bridge \in BridgeNames, phys \in PhysNames, ip \in IpOptions,
          gateway \in GatewayOptions, flush \in BOOLEAN :
          (\/ InvalidName(bridge) \/ InvalidName(phys)
           \/ InvalidAddress(ip) \/ InvalidAddress(gateway)) =>
              RaisedBeforeRecording(
                  bridged_network(Builder, host, bridge, phys, ip, gateway, flush))
    /\ \A tap \in TapNames, user \in Users, bridge \in {None, "br0", "Br0"} :
          (InvalidName(tap) \/ InvalidName(bridge)) =>
              RaisedBeforeRecording(tap_device(Builder, host, tap, user, bridge))

\* What the code keeps: a request given a name that validate_device_name
\* rejects or an address that validate_ip_address rejects raises and records
\* nothing, and a request that raises has recorded nothing.
C39_RejectedRequestRecordsNothing ==
    /\ \A bridge \in BridgeNames, phys \in PhysNames, ip \in IpOptions,
          gateway \in GatewayOptions, flush \in BOOLEAN :
          LET b == bridged_network(Builder, host, bridge, phys, ip, gateway, flush)
          IN /\ (\/ validate_device_name(Spelling(bridge)) # NoError
                 \/ validate_device_name(Spelling(phys)) # NoError
                 \/ InvalidAddress(ip) \/ InvalidAddress(gateway))
                    => RaisedBeforeRecording(b)
             /\ b.raised # NoError => RaisedBeforeRecording(b)
    /\ \A tap \in TapNames, user \in Users, bridge \in {None, "br0", "Br0"} :
          LET b == tap_device(Builder, host, tap, user, bridge)
          IN /\ (\/ validate_device_name(Spelling(tap)) # NoError
                 \/ (bridge # None /\ validate_device_name(Spelling(bridge)) # NoError))
                    => RaisedBeforeRecording(b)
             /\ b.raised # NoError => RaisedBeforeRecording(b)

\* ---------------------------------------------------------------- C40
\* C40: a port leaves the pool only when an overlay is registered with it:
\* after any sequence of commands, establish attempts that fail included,
\* the number of ports removed from the pool equals the number of registered
\* overlays.
C40_PortsMatchOverlays ==
    /\ Cardinality(VPN_PORTS \ available_vpn_ports)
          = Cardinality(DOMAIN established_vpns)
    /\ VPN_PORTS \ available_vpn_ports
          = {established_vpns[n] : n \in DOMAIN established_vpns}

====
